---- MODULE Spec2Model ----
(***************************************************************************)
(* A model of mse_fmp4: the conversion of an MPEG-2 TS carrying H.264 and  *)
(* ADTS AAC into a fragmented-MP4 initialization segment and media         *)
(* segment (src/src/mpeg2_ts.rs), the elementary-stream parsers it uses    *)
(* (src/src/avc.rs, src/src/aac.rs) and the box serializer                 *)
(* (src/src/fmp4/common.rs, media.rs, initialization.rs).                  *)
(***************************************************************************)
EXTENDS Integers, Sequences, FiniteSets, TLC

VARIABLES
    pc,                   \* "reading" | "done" | "failed": where to_fmp4 is
    err,                  \* the ErrorKind to_fmp4 returned ("" while none)
    pid_to_stream_type,   \* TsPacketReader.pid_to_stream_type
    stream_id_to_pid,     \* TsPacketReader.stream_id_to_pid
    avc_stream,           \* Option<AvcStream> of read_avc_aac_stream
    aac_stream,           \* Option<AacStream> of read_avc_aac_stream
    avc_timestamps,       \* Vec<(u64, usize)> of read_avc_aac_stream
    avc_timestamp_offset, \* u64 of read_avc_aac_stream
    pes,                  \* the PES packet the intake loop consumed last, with the
                          \* stream type it resolved for it
    segments,             \* Option<(InitializationSegment, MediaSegment)>
    reads,                \* how many PMTs and PES packets the reader has yielded,
                          \* and whether it has reported the end of the input
    box,                  \* the box handed to write_box (box serializer runs)
    out                   \* what write_box returned for it

vars == <<pc, err, pid_to_stream_type, stream_id_to_pid, avc_stream, aac_stream,
          avc_timestamps, avc_timestamp_offset, pes, segments, reads, box, out>>

(***************************************************************************)
(* Option<T> and Result<T>                                                 *)
(***************************************************************************)
None == <<>>
Some(x) == <<x>>
IsSome(o) == Len(o) > 0
IsNone(o) == Len(o) = 0
Unwrap(o) == o[1]

Ok(v) == [ok |-> TRUE, val |-> v, err |-> ""]
Err(kind) == [ok |-> FALSE, val |-> <<>>, err |-> kind]

\* r1 then r2, both byte strings: the first error wins, as with `?`.
Cat(r1, r2) ==
    IF ~r1.ok THEN r1
    ELSE IF ~r2.ok THEN r2
    ELSE Ok(r1.val \o r2.val)

\* size += r2, with `?` on both.
Plus(r1, r2) ==
    IF ~r1.ok THEN r1
    ELSE IF ~r2.ok THEN r2
    ELSE Ok(r1.val + r2.val)

Max(a, b) == IF a >= b THEN a ELSE b

(***************************************************************************)
(* Wide unsigned integers.  A u64 or u32 quantity of 90 kHz ticks is kept  *)
(* as hi * Limb + lo with 0 <= lo < Limb, since the 33-bit clock does not  *)
(* fit the checker's machine integers.                                     *)
(***************************************************************************)
Limb == 1024 * 1024 * 1024

W(n) == [hi |-> n \div Limb, lo |-> n % Limb]
WAdd(a, b) ==
    LET s == a.lo + b.lo
    IN  [hi |-> a.hi + b.hi + (s \div Limb), lo |-> s % Limb]
WLess(a, b) == a.hi < b.hi \/ (a.hi = b.hi /\ a.lo < b.lo)
WLeq(a, b) == ~WLess(b, a)
\* a - b for a >= b
WSub(a, b) ==
    IF a.lo >= b.lo
    THEN [hi |-> a.hi - b.hi, lo |-> a.lo - b.lo]
    ELSE [hi |-> a.hi - b.hi - 1, lo |-> (a.lo + Limb) - b.lo]
\* `x as u32` of a u64
AsU32(a) == [hi |-> a.hi % 4, lo |-> a.lo]
\* u32::checked_add
checked_add(a, b) ==
    LET s == WAdd(a, b)
    IN  IF s.hi >= 4 THEN None ELSE Some(s)
\* `x as i32` of a u32: two's complement
AsI32(a) ==
    IF a.hi >= 2
    THEN (a.hi - 4) * Limb + a.lo
    ELSE a.hi * Limb + a.lo
\* (a as i64 - b as i64) as i32, for a, b < 2^63
SubAsI32(a, b) ==
    IF WLeq(b, a)
    THEN AsI32(AsU32(WSub(a, b)))
    ELSE LET m == AsU32(WSub(b, a))
         IN  IF m.hi = 0 /\ m.lo = 0 THEN 0
             ELSE AsI32(WSub([hi |-> 4, lo |-> 0], m))

(***************************************************************************)
(* Bytes and bits                                                          *)
(***************************************************************************)
RECURSIVE Pow2(_)
Pow2(k) == IF k = 0 THEN 1 ELSE 2 * Pow2(k - 1)

Range(s) == { s[i] : i \in DOMAIN s }
Drop(s, n) == IF n >= Len(s) THEN <<>> ELSE SubSeq(s, n + 1, Len(s))
Take(s, n) == IF n >= Len(s) THEN s ELSE SubSeq(s, 1, n)
\* slice::starts_with
starts_with(s, p) == Len(s) >= Len(p) /\ SubSeq(s, 1, Len(p)) = p

\* WriteBytesExt::write_u16 / write_u32 / write_i32 / write_i16, big endian
write_u16(n) == <<n \div 256, n % 256>>
write_u24(n) == <<n \div 65536, (n \div 256) % 256, n % 256>>
\* a u32 written least significant byte first
write_u32_little_endian(n) ==
    <<n % 256, (n \div 256) % 256, (n \div 65536) % 256, n \div 16777216>>

write_u32(n) == <<n \div 16777216, (n \div 65536) % 256, (n \div 256) % 256, n % 256>>
write_i32(n) ==
    IF n >= 0 THEN write_u32(n)
    ELSE LET m == (n + Limb) + Limb
             b == write_u32(m)
         IN  <<b[1] + 128, b[2], b[3], b[4]>>
write_i16(n) == IF n >= 0 THEN write_u16(n) ELSE write_u16(n + 65536)
\* write_u32 of a wide u32
write_u32w(w) ==
    <<w.hi * 64 + (w.lo \div 16777216), (w.lo \div 65536) % 256,
      (w.lo \div 256) % 256, w.lo % 256>>
\* write_zeroes!
write_zeroes(n) == [i \in 1..n |-> 0]

(***************************************************************************)
(* avc.rs: BitReader (the same code is AvcBitReader of io.rs)              *)
(***************************************************************************)
\* The bit read_bit returns at bit position pos (MSB first).
BitAt(bytes, pos) == (bytes[(pos \div 8) + 1] \div Pow2(7 - (pos % 8))) % 2

\* [ok, val, pos, err]: read_bit fails with an I/O error (kind Other) at the end.
read_bit(bytes, pos) ==
    IF pos >= 8 * Len(bytes)
    THEN [ok |-> FALSE, val |-> 0, pos |-> pos, err |-> "Other"]
    ELSE [ok |-> TRUE, val |-> BitAt(bytes, pos), pos |-> pos + 1, err |-> ""]

\* the loop `while 0 == read_bit()? { leading_zeros += 1 }`: -1 when the
\* stream ends before a 1 bit
RECURSIVE LeadingZeros(_, _, _)
LeadingZeros(bytes, pos, n) ==
    IF pos >= 8 * Len(bytes) THEN -1
    ELSE IF BitAt(bytes, pos) = 1 THEN n
    ELSE LeadingZeros(bytes, pos + 1, n + 1)

\* the loop `n = (n << 1) | bit` over k bits from pos
RECURSIVE ReadBits(_, _, _, _)
ReadBits(bytes, pos, k, n) ==
    IF k = 0 THEN n
    ELSE ReadBits(bytes, pos + 1, k - 1, 2 * n + BitAt(bytes, pos))

\* a decoder that leaves out the `- 1` of the code number
read_exp_golomb_code_plus_one(bytes, pos) ==
    LET Code(leading_zeros) ==
            IF leading_zeros < 0 \/ pos + 2 * leading_zeros + 1 > 8 * Len(bytes)
            THEN [ok |-> FALSE, val |-> 0, pos |-> pos, err |-> "Other"]
            ELSE [ok |-> TRUE,
                  val |-> ReadBits(bytes, pos + leading_zeros + 1, leading_zeros, 0)
                            + Pow2(leading_zeros),
                  pos |-> pos + 2 * leading_zeros + 1,
                  err |-> ""]
    IN  Code(LeadingZeros(bytes, pos, 0))

read_exp_golomb_code(bytes, pos) ==
    LET Code(leading_zeros) ==
            IF leading_zeros < 0 \/ pos + 2 * leading_zeros + 1 > 8 * Len(bytes)
            THEN [ok |-> FALSE, val |-> 0, pos |-> pos, err |-> "Other"]
            ELSE [ok |-> TRUE,
                  val |-> ReadBits(bytes, pos + leading_zeros + 1, leading_zeros, 0)
                            + Pow2(leading_zeros) - 1,
                  pos |-> pos + 2 * leading_zeros + 1,
                  err |-> ""]
    IN  Code(LeadingZeros(bytes, pos, 0))

read_ue(bytes, pos) == read_exp_golomb_code(bytes, pos)

\* A run of reads, `?` after each: kinds is a sequence of "ue" and "bit".
\* [ok, vals, pos, err]
RECURSIVE ReadFields(_, _, _, _)
ReadFields(bytes, pos, kinds, vals) ==
    IF kinds = <<>> THEN [ok |-> TRUE, vals |-> vals, pos |-> pos, err |-> ""]
    ELSE LET Then(r) ==
                 IF ~r.ok THEN [ok |-> FALSE, vals |-> vals, pos |-> pos, err |-> r.err]
                 ELSE ReadFields(bytes, r.pos, Tail(kinds), Append(vals, r.val))
         IN  Then(IF Head(kinds) = "ue" THEN read_ue(bytes, pos)
                  ELSE read_bit(bytes, pos))

Repeat(x, n) == [i \in 1..n |-> x]

(***************************************************************************)
(* avc.rs: SPS, NAL unit header, Annex-B splitter                          *)
(***************************************************************************)
\* the rejected profiles without the High profile
UnsupportedProfilesWithoutHigh == {110, 122, 244, 44, 83, 86, 118, 128}

UnsupportedProfiles == {100, 110, 122, 244, 44, 83, 86, 118, 128}

SpsErr(kind) == [ok |-> FALSE, err |-> kind, profile_idc |-> 0,
                 constraint_set_flag |-> 0, level_idc |-> 0,
                 pic_width_in_mbs_minus_1 |-> 0,
                 pic_height_in_map_units_minus_1 |-> 0]

\* The reads after pic_order_cnt_type, up to pic_height_in_map_units_minus_1.
SpsTail(bytes, bits, pos) ==
    LET Summary(r) ==
            IF ~r.ok THEN SpsErr(r.err)
            ELSE [ok |-> TRUE, err |-> "", profile_idc |-> bytes[1],
                  constraint_set_flag |-> bytes[2], level_idc |-> bytes[3],
                  pic_width_in_mbs_minus_1 |-> r.vals[3],
                  pic_height_in_map_units_minus_1 |-> r.vals[4]]
    IN  Summary(ReadFields(bits, pos, <<"ue", "bit", "ue", "ue">>, <<>>))

\* SequenceParameterSet::read_from, on the NAL unit without its header byte.
\* Each step takes the result of the reads before it: id is
\* seq_parameter_set_id, h is log2_max_frame_num_minus4 and
\* pic_order_cnt_type, c the fields of that pic_order_cnt_type (the last of
\* them the length of the offset_for_ref_frame loop).
SequenceParameterSet_read_from(bytes) ==
    IF Len(bytes) < 3 THEN SpsErr("Other")
    ELSE
    LET profile_idc == bytes[1]
        bits == Drop(bytes, 3)
        AfterOrderCnt(c) ==
            IF ~c.ok THEN SpsErr(c.err) ELSE SpsTail(bytes, bits, c.pos)
        AfterOrderCntType1(c) ==
            IF ~c.ok THEN SpsErr(c.err)
            ELSE AfterOrderCnt(ReadFields(bits, c.pos, Repeat("ue", c.vals[4]), <<>>))
        AfterOrderCntType(h) ==
            IF ~h.ok THEN SpsErr(h.err)
            ELSE IF h.vals[2] = 0
            THEN AfterOrderCnt(ReadFields(bits, h.pos, <<"ue">>, <<>>))
            ELSE IF h.vals[2] = 1
            THEN AfterOrderCntType1(
                     ReadFields(bits, h.pos, <<"bit", "ue", "ue", "ue">>, <<>>))
            ELSE SpsErr("InvalidInput")
        AfterId(id) ==
            IF ~id.ok THEN SpsErr(id.err)
            ELSE IF profile_idc \in UnsupportedProfiles THEN SpsErr("Unsupported")
            ELSE AfterOrderCntType(ReadFields(bits, id.pos, <<"ue", "ue">>, <<>>))
    IN  AfterId(ReadFields(bits, 0, <<"ue">>, <<>>))

\* SequenceParameterSet::width / height
width(sps) == (sps.pic_width_in_mbs_minus_1 + 1) * 16
height(sps) == (sps.pic_height_in_map_units_minus_1 + 1) * 16

NalUnitTypes == (1..15) \cup {19, 20}
SequenceParameterSet == 7
PictureParameterSet == 8

\* NalUnitType::from_u8
NalUnitType_from_u8(n) == IF n \in NalUnitTypes THEN Ok(n) ELSE Err("InvalidInput")

\* NalUnit::read_from: the unit type of the header byte (Ok(type) or an error)
NalUnit_read_from(nal_unit) ==
    IF Len(nal_unit) = 0 THEN Err("Other")
    ELSE NalUnitType_from_u8(nal_unit[1] % 32)

\* ByteStreamFormatNalUnits::new: the bytes after the leading start code
ByteStreamFormatNalUnits_new(bytes) ==
    IF starts_with(bytes, <<0, 0, 1>>) THEN Ok(Drop(bytes, 3))
    ELSE IF starts_with(bytes, <<0, 0, 0, 1>>) THEN Ok(Drop(bytes, 4))
    ELSE Err("InvalidInput")

\* a scan that knows the 3-byte start code only
RECURSIVE FindStartCodeOfThree(_, _)
FindStartCodeOfThree(bytes, i) ==
    IF i >= Len(bytes) THEN <<Len(bytes), Len(bytes)>>
    ELSE IF starts_with(Drop(bytes, i), <<0, 0, 1>>) THEN <<i, i + 3>>
    ELSE FindStartCodeOfThree(bytes, i + 1)

\* the scan of next(): <<end, next_start>> (0-based), from index i
RECURSIVE FindStartCode(_, _)
FindStartCode(bytes, i) ==
    IF i >= Len(bytes) THEN <<Len(bytes), Len(bytes)>>
    ELSE IF starts_with(Drop(bytes, i), <<0, 0, 0, 1>>) THEN <<i, i + 4>>
    ELSE IF starts_with(Drop(bytes, i), <<0, 0, 1>>) THEN <<i, i + 3>>
    ELSE FindStartCode(bytes, i + 1)

\* Iterator::next, run to the end: every slice the iterator yields, in order
RECURSIVE ByteStreamFormatNalUnits_next(_)
ByteStreamFormatNalUnits_next(bytes) ==
    IF Len(bytes) = 0 THEN <<>>
    ELSE LET f == FindStartCode(bytes, 0)
         IN  <<Take(bytes, f[1])>> \o ByteStreamFormatNalUnits_next(Drop(bytes, f[2]))

\* `for nal_unit in ByteStreamFormatNalUnits::new(&pes.data)?`
NalUnits(data) ==
    LET r == ByteStreamFormatNalUnits_new(data)
    IN  IF r.ok THEN Ok(ByteStreamFormatNalUnits_next(r.val)) ELSE r

(***************************************************************************)
(* aac.rs: ADTS header                                                     *)
(***************************************************************************)
SAMPLES_IN_FRAME == 1024
HEADER_LEN_WITHOUT_CRC == 7

AdtsErr(kind) == [ok |-> FALSE, err |-> kind, profile |-> 0, sampling_frequency |-> 0,
                  channel_configuration |-> 0, frame_len |-> 0]

\* SamplingFrequency::from_index: the index itself, 13..15 rejected
SamplingFrequency_from_index(n) ==
    IF n <= 12 THEN Ok(n) ELSE Err("InvalidInput")

\* SamplingFrequency::as_u32
as_u32(index) ==
    <<96000, 88200, 64000, 48000, 44100, 32000, 24000, 22050, 16000, 12000,
      11025, 8000, 7350>>[index + 1]

\* ChannelConfiguration::from_u8
ChannelConfiguration_from_u8(n) ==
    IF n <= 7 THEN Ok(n) ELSE Err("InvalidInput")

\* AdtsHeader::read_from: the reads and checks in the order of the code
AdtsHeader_read_from(b) ==
    IF Len(b) < 2 THEN AdtsErr("Other")
    ELSE IF ~(b[1] = 255 /\ b[2] \div 16 = 15) THEN AdtsErr("InvalidInput")
    ELSE IF (b[2] \div 8) % 2 # 0 THEN AdtsErr("Unsupported")
    ELSE IF (b[2] \div 2) % 4 # 0 THEN AdtsErr("InvalidInput")
    ELSE IF Len(b) < 3 THEN AdtsErr("Other")
    ELSE
    LET crc_protection_absent == b[2] % 2 # 0
        profile == b[3] \div 64
        sampling_frequency == SamplingFrequency_from_index((b[3] \div 4) % 16)
        channel_msb == b[3] % 2
    IN  IF ~sampling_frequency.ok THEN AdtsErr(sampling_frequency.err)
        ELSE IF Len(b) < 4 THEN AdtsErr("Other")
        ELSE
        LET channel_configuration ==
                ChannelConfiguration_from_u8(channel_msb * 4 + (b[4] \div 64))
            frame_len_msb_2bits == b[4] % 4
        IN  IF ~channel_configuration.ok THEN AdtsErr(channel_configuration.err)
            ELSE IF (b[4] \div 4) % 16 # 0 THEN AdtsErr("Unsupported")
            ELSE IF Len(b) < 6 THEN AdtsErr("Other")
            ELSE
            LET n == b[5] * 256 + b[6]
                frame_len == frame_len_msb_2bits * 2048 + (n \div 32)
            IN  IF Len(b) < 7 THEN AdtsErr("Other")
                ELSE IF b[7] % 4 # 0 THEN AdtsErr("Unsupported")
                ELSE IF ~crc_protection_absent THEN AdtsErr("Unsupported")
                ELSE [ok |-> TRUE, err |-> "", profile |-> profile,
                      sampling_frequency |-> sampling_frequency.val,
                      channel_configuration |-> channel_configuration.val,
                      frame_len |-> frame_len]

\* AdtsHeader::raw_data_blocks_len: a u16 subtraction.  -1 stands for the
\* arithmetic overflow of frame_len < 7 (a panic in a debug build, a value
\* near 65535 in a release build, which no PES payload here can hold).
raw_data_blocks_len(header) ==
    IF header.frame_len >= HEADER_LEN_WITHOUT_CRC
    THEN header.frame_len - HEADER_LEN_WITHOUT_CRC
    ELSE -1

(***************************************************************************)
(* mpeg2_ts.rs: TsPacketReader and the intake loop of read_avc_aac_stream  *)
(***************************************************************************)
\* StreamId::is_video / is_audio (ISO/IEC 13818-1 stream_id ranges)
StreamId_is_video(stream_id) == stream_id >= 224 /\ stream_id <= 239
StreamId_is_audio(stream_id) == stream_id >= 192 /\ stream_id <= 223

\* Timestamp::MAX, the modulus of the 33-bit clock, and Timestamp::RESOLUTION
\* a clock modulus of 2^32
Timestamp_MAX_32 == [hi |-> 4, lo |-> 0]

Timestamp_MAX == [hi |-> 8, lo |-> 0]
Timestamp_RESOLUTION == 90000

\* HashMap::insert
Insert(map, k, v) == [x \in (DOMAIN map) \cup {k} |-> IF x = k THEN v ELSE map[x]]

\* HashMap::insert of every es_info of a PMT (a set of <<pid, stream_type>>;
\* the tables used give one type per PID, so the order does not matter)
InsertAll(map, table) ==
    [x \in (DOMAIN map) \cup {e[1] : e \in table} |->
        IF \E e \in table : e[1] = x
        THEN (CHOOSE e \in table : e[1] = x)[2]
        ELSE map[x]]

\* TsPacketReader::get_stream_type
get_stream_type(s2p, p2t, stream_id) ==
    IF stream_id \in DOMAIN s2p /\ s2p[stream_id] \in DOMAIN p2t
    THEN Some(p2t[s2p[stream_id]])
    ELSE None

\* TsPacketReader::read_ts_packet, the arm of a PES-carrying packet
read_ts_packet_pes(s2p, p2t, pid, stream_id) ==
    IF pid \in DOMAIN p2t THEN Insert(s2p, stream_id, pid) ELSE s2p

Sample(duration, size, flags, composition_time_offset) ==
    [duration |-> duration, size |-> size, flags |-> flags,
     composition_time_offset |-> composition_time_offset]

\* What one pass of the loop leaves behind.
Step(p, e, avc, aac, ts, off) ==
    [pc |-> p, err |-> e, avc_stream |-> avc, aac_stream |-> aac,
     avc_timestamps |-> ts, avc_timestamp_offset |-> off]

\* a scan that reports a missing SPS or PPS as Unsupported
RECURSIVE ScanParameterSetsMissingUnsupported(_, _)
ScanParameterSetsMissingUnsupported(units, acc) ==
    IF units = <<>> THEN
        IF IsNone(acc.sps_summary) \/ IsNone(acc.sps) \/ IsNone(acc.pps)
        THEN Err("Unsupported")
        ELSE Ok(acc)
    ELSE
    LET nal_unit == Head(units)
        nal_unit_type == NalUnit_read_from(nal_unit)
        Keep(summary) ==
            IF ~summary.ok THEN Err(summary.err)
            ELSE ScanParameterSetsMissingUnsupported(Tail(units),
                    [acc EXCEPT !.sps_summary = Some(summary), !.sps = Some(nal_unit)])
    IN  IF ~nal_unit_type.ok THEN Err(nal_unit_type.err)
        ELSE IF nal_unit_type.val = SequenceParameterSet
        THEN Keep(SequenceParameterSet_read_from(Drop(nal_unit, 1)))
        ELSE IF nal_unit_type.val = PictureParameterSet
        THEN ScanParameterSetsMissingUnsupported(Tail(units), [acc EXCEPT !.pps = Some(nal_unit)])
        ELSE ScanParameterSetsMissingUnsupported(Tail(units), acc)

\* lines 241-260: the scan of the first video PES for SPS and PPS
RECURSIVE ScanParameterSets(_, _)
ScanParameterSets(units, acc) ==
    IF units = <<>> THEN
        IF IsNone(acc.sps_summary) \/ IsNone(acc.sps) \/ IsNone(acc.pps)
        THEN Err("InvalidInput")
        ELSE Ok(acc)
    ELSE
    LET nal_unit == Head(units)
        nal_unit_type == NalUnit_read_from(nal_unit)
        Keep(summary) ==
            IF ~summary.ok THEN Err(summary.err)
            ELSE ScanParameterSets(Tail(units),
                    [acc EXCEPT !.sps_summary = Some(summary), !.sps = Some(nal_unit)])
    IN  IF ~nal_unit_type.ok THEN Err(nal_unit_type.err)
        ELSE IF nal_unit_type.val = SequenceParameterSet
        THEN Keep(SequenceParameterSet_read_from(Drop(nal_unit, 1)))
        ELSE IF nal_unit_type.val = PictureParameterSet
        THEN ScanParameterSets(Tail(units), [acc EXCEPT !.pps = Some(nal_unit)])
        ELSE ScanParameterSets(Tail(units), acc)

\* lines 240-274: the AvcStream the first video PES configures
NewAvcStream(data) ==
    LET Configure(r) ==
            IF ~r.ok THEN r
            ELSE LET sps_summary == Unwrap(r.val.sps_summary)
                 IN  Ok([configuration |->
                            [profile_idc |-> sps_summary.profile_idc,
                             constraint_set_flag |-> sps_summary.constraint_set_flag,
                             level_idc |-> sps_summary.level_idc,
                             sequence_parameter_set |-> Unwrap(r.val.sps),
                             picture_parameter_set |-> Unwrap(r.val.pps)],
                         width |-> width(sps_summary),
                         height |-> height(sps_summary),
                         samples |-> <<>>,
                         data |-> <<>>])
        Scan(units) ==
            IF ~units.ok THEN Err(units.err)
            ELSE Configure(ScanParameterSets(units.val,
                               [sps |-> None, pps |-> None, sps_summary |-> None]))
    IN  Scan(NalUnits(data))

\* NAL units behind a two-byte length
RECURSIVE LengthPrefixedU16(_)
LengthPrefixedU16(units) ==
    IF units = <<>> THEN <<>>
    ELSE write_u16(Len(Head(units))) \o Head(units) \o LengthPrefixedU16(Tail(units))

\* lines 278-284: each NAL unit as a big-endian u32 length and its bytes
RECURSIVE LengthPrefixed(_)
LengthPrefixed(units) ==
    IF units = <<>> THEN <<>>
    ELSE write_u32(Len(Head(units))) \o Head(units) \o LengthPrefixed(Tail(units))

\* lines 230-238: the re-based timestamp pushed for a video PES
RebasedTimestamp(pts, i, off) ==
    LET offset == IF i = 0 THEN pts ELSE off
        timestamp == IF WLess(pts, offset) THEN WAdd(pts, Timestamp_MAX) ELSE pts
    IN  WSub(timestamp, offset)

\* a video branch that puts the newest sample and its bytes first
VideoBranchNewestFirst(p, stream_type, avc, aac, ts, off) ==
    IF stream_type # "H264" THEN Step("failed", "Unsupported", avc, aac, ts, off)
    ELSE IF IsNone(p.pts) THEN Step("failed", "InvalidInput", avc, aac, ts, off)
    ELSE
    LET pts == Unwrap(p.pts)
        dts == IF IsSome(p.dts) THEN Unwrap(p.dts) ELSE pts
        i == Len(ts)
        off2 == IF i = 0 THEN pts ELSE off
        ts2 == Append(ts, <<RebasedTimestamp(pts, i, off), i>>)
        \* the sample of this PES appended to the stream
        Push(stream, data) ==
            LET sample_size == Len(data) - Len(stream.data)
                sample_composition_time_offset == SubAsI32(pts, dts)
                sample == Sample(None, Some(sample_size), None,
                                 Some(sample_composition_time_offset))
            IN  Step("reading", "",
                     Some([stream EXCEPT !.data = data,
                                         !.samples = <<sample>> \o stream.samples]),
                     aac, ts2, off2)
        \* the NAL units of the PES, on the stream the first PES created
        Split(stream, units) ==
            IF ~units.ok THEN Step("failed", units.err, Some(stream), aac, ts2, off2)
            ELSE Push(stream, LengthPrefixed(units.val) \o stream.data)
        Created(created) ==
            IF ~created.ok THEN Step("failed", created.err, avc, aac, ts2, off2)
            ELSE Split(created.val, NalUnits(p.data))
    IN  Created(IF IsNone(avc) THEN NewAvcStream(p.data) ELSE Ok(Unwrap(avc)))

\* lines 225-293: the video branch
VideoBranch(p, stream_type, avc, aac, ts, off) ==
    IF stream_type # "H264" THEN Step("failed", "Unsupported", avc, aac, ts, off)
    ELSE IF IsNone(p.pts) THEN Step("failed", "InvalidInput", avc, aac, ts, off)
    ELSE
    LET pts == Unwrap(p.pts)
        dts == IF IsSome(p.dts) THEN Unwrap(p.dts) ELSE pts
        i == Len(ts)
        off2 == IF i = 0 THEN pts ELSE off
        ts2 == Append(ts, <<RebasedTimestamp(pts, i, off), i>>)
        \* the sample of this PES appended to the stream
        Push(stream, data) ==
            LET sample_size == Len(data) - Len(stream.data)
                sample_composition_time_offset == SubAsI32(pts, dts)
                sample == Sample(None, Some(sample_size), None,
                                 Some(sample_composition_time_offset))
            IN  Step("reading", "",
                     Some([stream EXCEPT !.data = data,
                                         !.samples = Append(stream.samples, sample)]),
                     aac, ts2, off2)
        \* the NAL units of the PES, on the stream the first PES created
        Split(stream, units) ==
            IF ~units.ok THEN Step("failed", units.err, Some(stream), aac, ts2, off2)
            ELSE Push(stream, stream.data \o LengthPrefixed(units.val))
        Created(created) ==
            IF ~created.ok THEN Step("failed", created.err, avc, aac, ts2, off2)
            ELSE Split(created.val, NalUnits(p.data))
    IN  Created(IF IsNone(avc) THEN NewAvcStream(p.data) ELSE Ok(Unwrap(avc)))

\* a frame loop that copies the header of each frame along with its payload
RECURSIVE AudioFramesWithHeader(_, _)
AudioFramesWithHeader(bytes, stream) ==
    IF Len(bytes) = 0 THEN [pc |-> "reading", err |-> "", stream |-> stream]
    ELSE
    LET rest == Drop(bytes, HEADER_LEN_WITHOUT_CRC)
        Frame(sample_size) ==
            IF sample_size < 0 \/ sample_size > Len(rest)
            THEN [pc |-> "panicked", err |-> "", stream |-> stream]
            ELSE AudioFramesWithHeader(Drop(rest, sample_size),
                    [stream EXCEPT
                        !.samples = Append(@, Sample(None, Some(sample_size), None, None)),
                        !.data = @ \o Take(bytes, HEADER_LEN_WITHOUT_CRC + sample_size)])
        Header(header) ==
            IF ~header.ok THEN [pc |-> "failed", err |-> header.err, stream |-> stream]
            ELSE Frame(raw_data_blocks_len(header))
    IN  Header(AdtsHeader_read_from(bytes))

\* lines 307-322: the ADTS frames of one audio PES; [pc, err, stream]
RECURSIVE AudioFrames(_, _)
AudioFrames(bytes, stream) ==
    IF Len(bytes) = 0 THEN [pc |-> "reading", err |-> "", stream |-> stream]
    ELSE
    LET rest == Drop(bytes, HEADER_LEN_WITHOUT_CRC)
        Frame(sample_size) ==
            IF sample_size < 0 \/ sample_size > Len(rest)
            THEN [pc |-> "panicked", err |-> "", stream |-> stream]
            ELSE AudioFrames(Drop(rest, sample_size),
                    [stream EXCEPT
                        !.samples = Append(@, Sample(None, Some(sample_size), None, None)),
                        !.data = @ \o Take(rest, sample_size)])
        Header(header) ==
            IF ~header.ok THEN [pc |-> "failed", err |-> header.err, stream |-> stream]
            ELSE Frame(raw_data_blocks_len(header))
    IN  Header(AdtsHeader_read_from(bytes))

\* lines 295-322: the audio branch
AudioBranch(p, stream_type, avc, aac, ts, off) ==
    IF ~StreamId_is_audio(p.stream_id) THEN Step("failed", "InvalidInput", avc, aac, ts, off)
    ELSE IF stream_type # "AdtsAac" THEN Step("failed", "Unsupported", avc, aac, ts, off)
    ELSE
    LET Frames(r) == Step(r.pc, r.err, avc, Some(r.stream), ts, off)
        First(adts_header) ==
            IF IsNone(aac) /\ ~adts_header.ok
            THEN Step("failed", adts_header.err, avc, aac, ts, off)
            ELSE Frames(AudioFrames(p.data,
                     IF IsNone(aac)
                     THEN [adts_header |-> adts_header, samples |-> <<>>, data |-> <<>>]
                     ELSE Unwrap(aac)))
    IN  First(AdtsHeader_read_from(p.data))

\* a loop body that reports a video PES without PTS as Unsupported
LoopBodyPtsUnsupported(p, stream_type, avc, aac, ts, off) ==
    IF IsNone(stream_type) THEN Step("failed", "InvalidInput", avc, aac, ts, off)
    ELSE IF StreamId_is_video(p.stream_id) /\ IsNone(p.pts)
    THEN Step("failed", "Unsupported", avc, aac, ts, off)
    ELSE IF StreamId_is_video(p.stream_id)
    THEN VideoBranch(p, Unwrap(stream_type), avc, aac, ts, off)
    ELSE AudioBranch(p, Unwrap(stream_type), avc, aac, ts, off)

\* a loop body that reports an unresolved stream type as Unsupported
LoopBodyUnresolvedUnsupported(p, stream_type, avc, aac, ts, off) ==
    IF IsNone(stream_type) THEN Step("failed", "Unsupported", avc, aac, ts, off)
    ELSE IF StreamId_is_video(p.stream_id)
    THEN VideoBranch(p, Unwrap(stream_type), avc, aac, ts, off)
    ELSE AudioBranch(p, Unwrap(stream_type), avc, aac, ts, off)

\* lines 217-323: one pass of `while let Some(pes) = reader.read_pes_packet()?`
LoopBody(p, stream_type, avc, aac, ts, off) ==
    IF IsNone(stream_type) THEN Step("failed", "InvalidInput", avc, aac, ts, off)
    ELSE IF StreamId_is_video(p.stream_id)
    THEN VideoBranch(p, Unwrap(stream_type), avc, aac, ts, off)
    ELSE AudioBranch(p, Unwrap(stream_type), avc, aac, ts, off)

(***************************************************************************)
(* fmp4/common.rs, media.rs, initialization.rs: the box serializer.        *)
(* A box is a record whose field `type` is its BOX_TYPE; a writer returns  *)
(* Ok(the bytes written) or Err(kind).                                     *)
(***************************************************************************)
\* Mp4Box::BOX_TYPE as bytes
BOX_TYPE(t) ==
    CASE t = "ftyp" -> <<102, 116, 121, 112>>
      [] t = "moov" -> <<109, 111, 111, 118>>
      [] t = "mvex" -> <<109, 118, 101, 120>>
      [] t = "mehd" -> <<109, 101, 104, 100>>
      [] t = "trex" -> <<116, 114, 101, 120>>
      [] t = "mvhd" -> <<109, 118, 104, 100>>
      [] t = "trak" -> <<116, 114, 97, 107>>
      [] t = "tkhd" -> <<116, 107, 104, 100>>
      [] t = "edts" -> <<101, 100, 116, 115>>
      [] t = "elst" -> <<101, 108, 115, 116>>
      [] t = "mdia" -> <<109, 100, 105, 97>>
      [] t = "mdhd" -> <<109, 100, 104, 100>>
      [] t = "hdlr" -> <<104, 100, 108, 114>>
      [] t = "minf" -> <<109, 105, 110, 102>>
      [] t = "vmhd" -> <<118, 109, 104, 100>>
      [] t = "smhd" -> <<115, 109, 104, 100>>
      [] t = "dinf" -> <<100, 105, 110, 102>>
      [] t = "dref" -> <<100, 114, 101, 102>>
      [] t = "url " -> <<117, 114, 108, 32>>
      [] t = "stbl" -> <<115, 116, 98, 108>>
      [] t = "stsd" -> <<115, 116, 115, 100>>
      [] t = "stsz" -> <<115, 116, 115, 122>>
      [] t = "stts" -> <<115, 116, 116, 115>>
      [] t = "stco" -> <<115, 116, 99, 111>>
      [] t = "stsc" -> <<115, 116, 115, 99>>
      [] t = "avc1" -> <<97, 118, 99, 49>>
      [] t = "avcC" -> <<97, 118, 99, 67>>
      [] t = "mp4a" -> <<109, 112, 52, 97>>
      [] t = "esds" -> <<101, 115, 100, 115>>
      [] t = "mdat" -> <<109, 100, 97, 116>>
      [] t = "moof" -> <<109, 111, 111, 102>>
      [] t = "mfhd" -> <<109, 102, 104, 100>>
      [] t = "traf" -> <<116, 114, 97, 102>>
      [] t = "tfhd" -> <<116, 102, 104, 100>>
      [] t = "tfdt" -> <<116, 102, 100, 116>>
      [] t = "trun" -> <<116, 114, 117, 110>>

\* ByteCounter::calculate: a dry run of the writer against a sink, counted
calculate(written) == IF written.ok THEN Ok(Len(written.val)) ELSE written

\* SampleFlags::to_u32 (the fields fill disjoint bit ranges)
SampleFlags_to_u32(f) ==
    f.is_leading * 67108864 + f.sample_depends_on * 16777216
    + f.sample_is_depdended_on * 4194304 + f.sample_has_redundancy * 1048576
    + f.sample_padding_value * 131072
    + (IF f.sample_is_non_sync_sample THEN 65536 ELSE 0)
    + f.sample_degradation_priority

\* Sample::to_box_flags
to_box_flags(sample) ==
    (IF IsSome(sample.duration) THEN 256 ELSE 0)
    + (IF IsSome(sample.size) THEN 512 ELSE 0)
    + (IF IsSome(sample.flags) THEN 1024 ELSE 0)
    + (IF IsSome(sample.composition_time_offset) THEN 2048 ELSE 0)

Sample_default == Sample(None, None, None, None)

\* Mp4Box::box_version of each concrete box
box_version(b) ==
    IF b.type \in {"mehd", "trex", "mvhd", "tkhd", "elst", "mdhd", "hdlr", "smhd",
                   "dref", "stsd", "stsz", "stts", "stco", "stsc", "esds", "mfhd",
                   "tfdt"}
    THEN Some(0)
    ELSE IF b.type = "trun" THEN Some(1)
    ELSE None

\* Mp4Box::box_flags of each concrete box
box_flags(b) ==
    CASE b.type = "tkhd" -> Some(7)
      [] b.type = "vmhd" -> Some(1)
      [] b.type = "url " -> Some(1)
      [] b.type = "tfhd" ->
            Some((IF IsSome(b.base_data_offset) THEN 1 ELSE 0)
                 + (IF IsSome(b.sample_description_index) THEN 2 ELSE 0)
                 + (IF IsSome(b.default_sample_duration) THEN 8 ELSE 0)
                 + (IF IsSome(b.default_sample_size) THEN 16 ELSE 0)
                 + (IF IsSome(b.default_sample_flags) THEN 32 ELSE 0)
                 + (IF b.duration_is_empty THEN 65536 ELSE 0)
                 + (IF b.default_base_is_moof THEN 131072 ELSE 0))
      [] b.type = "trun" ->
            LET sample == IF Len(b.samples) > 0 THEN b.samples[1] ELSE Sample_default
            IN  Some((IF IsSome(b.data_offset) THEN 1 ELSE 0)
                     + (IF IsSome(b.first_sample_flags) THEN 4 ELSE 0)
                     + to_box_flags(sample))
      [] OTHER -> None

\* the bytes of an optional field: nothing when it is None
Opt(o, bytes) == IF IsSome(o) THEN bytes ELSE <<>>

\* the sample loop without the comparison of each sample with the first
RECURSIVE WriteSamplesUnchecked(_, _)
WriteSamplesUnchecked(samples, sample_flags) ==
    IF samples = <<>> THEN Ok(<<>>)
    ELSE
    LET sample == Head(samples)
    IN  Cat(Ok(Opt(sample.duration, write_u32w(sample.duration[1]))
               \o Opt(sample.size, write_u32(sample.size[1]))
               \o Opt(sample.flags, write_u32(SampleFlags_to_u32(sample.flags[1])))
               \o Opt(sample.composition_time_offset,
                      write_i32(sample.composition_time_offset[1]))),
            WriteSamplesUnchecked(Tail(samples), sample_flags))

\* TrackRunBox::write_box_payload, the loop over the samples
RECURSIVE WriteSamples(_, _)
WriteSamples(samples, sample_flags) ==
    IF samples = <<>> THEN Ok(<<>>)
    ELSE
    LET sample == Head(samples)
        flags == IF IsNone(sample_flags) THEN Some(to_box_flags(sample)) ELSE sample_flags
    IN  IF Some(to_box_flags(sample)) # flags THEN Err("InvalidInput")
        ELSE Cat(Ok(Opt(sample.duration, write_u32w(sample.duration[1]))
                    \o Opt(sample.size, write_u32(sample.size[1]))
                    \o Opt(sample.flags, write_u32(SampleFlags_to_u32(sample.flags[1])))
                    \o Opt(sample.composition_time_offset,
                           write_i32(sample.composition_time_offset[1]))),
                 WriteSamples(Tail(samples), flags))

\* AvcDecoderConfigurationRecord::write_to
AvcDecoderConfigurationRecord_write_to(c) ==
    IF c.profile_idc \in {100, 110, 122, 144} THEN Err("Unsupported")
    ELSE Ok(<<1, c.profile_idc, c.constraint_set_flag, c.level_idc, 255, 225>>
            \o write_u16(Len(c.sequence_parameter_set)) \o c.sequence_parameter_set
            \o <<1>>
            \o write_u16(Len(c.picture_parameter_set)) \o c.picture_parameter_set)

\* AvcSampleEntry::write_box_payload_without_avcc
write_box_payload_without_avcc(b) ==
    Ok(write_zeroes(6) \o write_u16(1) \o write_zeroes(16)
       \o write_u16(b.width) \o write_u16(b.height)
       \o write_u32(4718592) \o write_u32(4718592) \o write_zeroes(4)
       \o write_u16(1) \o write_zeroes(32) \o write_u16(24) \o write_i16(-1))

\* AacSampleEntry::write_box_payload_without_esds
write_box_payload_without_esds(b) ==
    LET channels == b.esds_box.channel_configuration
        sample_rate == as_u32(b.esds_box.frequency)
    IN  IF ~(channels = 1 \/ channels = 2) THEN Err("Unsupported")
        ELSE IF ~(sample_rate <= 65535) THEN Err("InvalidInput")
        ELSE Ok(write_zeroes(6) \o write_u16(1) \o write_zeroes(8)
                \o write_u16(channels) \o write_u16(16) \o write_zeroes(4)
                \o write_u16(sample_rate) \o write_zeroes(2))

\* the transformation matrix of mvhd and tkhd
Matrix ==
    write_i32(65536) \o write_i32(0) \o write_i32(0)
    \o write_i32(0) \o write_i32(65536) \o write_i32(0)
    \o write_i32(0) \o write_i32(0) \o write_i32(1073741824)

\* CString::as_bytes_with_nul of "Video Handler" / "Sound Handler"
HandlerName(handler_type) ==
    IF handler_type = <<118, 105, 100, 101>>
    THEN <<86, 105, 100, 101, 111, 32, 72, 97, 110, 100, 108, 101, 114, 0>>
    ELSE <<83, 111, 117, 110, 100, 32, 72, 97, 110, 100, 108, 101, 114, 0>>

RECURSIVE write_box(_), box_size(_), box_payload_size(_), write_box_payload(_),
          write_boxes(_), boxes_size(_)

\* write_boxes!
write_boxes(bs) ==
    IF bs = <<>> THEN Ok(<<>>) ELSE Cat(write_box(Head(bs)), write_boxes(Tail(bs)))

\* boxes_size!
boxes_size(bs) ==
    IF bs = <<>> THEN Ok(0) ELSE Plus(box_size(Head(bs)), boxes_size(Tail(bs)))

\* optional_box_size!
optional_box_size(o) == IF IsSome(o) THEN box_size(o[1]) ELSE Ok(0)

\* write_box! of an optional box
write_optional_box(o) == IF IsSome(o) THEN write_box(o[1]) ELSE Ok(<<>>)

\* Mp4Box::write_box_payload of each concrete box
write_box_payload(b) ==
    CASE b.type = "ftyp" -> Ok(<<105, 115, 111, 109>> \o write_u32(512))
      [] b.type = "moov" ->
            IF b.trak_boxes = <<>> THEN Err("InvalidInput")
            ELSE Cat(write_box(b.mvhd_box),
                     Cat(write_boxes(b.trak_boxes), write_box(b.mvex_box)))
      [] b.type = "mvex" ->
            IF b.trex_boxes = <<>> THEN Err("InvalidInput")
            ELSE Cat(write_optional_box(b.mehd_box), write_boxes(b.trex_boxes))
      [] b.type = "mehd" -> Ok(write_u32w(b.fragment_duration))
      [] b.type = "trex" ->
            Ok(write_u32(b.track_id) \o write_u32(b.default_sample_description_index)
               \o write_u32(b.default_sample_duration) \o write_u32(b.default_sample_size)
               \o write_u32(b.default_sample_flags))
      [] b.type = "mvhd" ->
            Ok(write_u32(0) \o write_u32(0) \o write_u32(b.timescale)
               \o write_u32w(b.duration) \o write_i32(65536) \o write_i16(256)
               \o write_zeroes(2) \o write_zeroes(4 * 2) \o Matrix
               \o write_zeroes(4 * 6) \o <<255, 255, 255, 255>>)
      [] b.type = "trak" ->
            Cat(write_box(b.tkhd_box), Cat(write_box(b.edts_box), write_box(b.mdia_box)))
      [] b.type = "tkhd" ->
            Ok(write_u32(0) \o write_u32(0) \o write_u32(b.track_id) \o write_zeroes(4)
               \o write_u32w(b.duration) \o write_zeroes(4 * 2) \o write_i16(0)
               \o write_i16(0) \o write_i16(b.volume) \o write_zeroes(2) \o Matrix
               \o write_u32(b.width) \o write_u32(b.height))
      [] b.type = "edts" -> write_box(b.elst_box)
      [] b.type = "elst" ->
            Ok(write_u32(1) \o write_u32(0) \o write_i32(b.media_time)
               \o write_i16(1) \o write_i16(0))
      [] b.type = "mdia" ->
            Cat(write_box(b.mdhd_box), Cat(write_box(b.hdlr_box), write_box(b.minf_box)))
      [] b.type = "mdhd" ->
            Ok(write_u32(0) \o write_u32(0) \o write_u32(b.timescale)
               \o write_u32w(b.duration) \o write_u16(21956) \o write_zeroes(2))
      [] b.type = "hdlr" ->
            Ok(write_zeroes(4) \o b.handler_type \o write_zeroes(4 * 3)
               \o HandlerName(b.handler_type))
      [] b.type = "minf" ->
            Cat(write_optional_box(b.vmhd_box),
                Cat(write_optional_box(b.smhd_box),
                    Cat(write_box(b.dinf_box), write_box(b.stbl_box))))
      [] b.type = "vmhd" -> Ok(write_u16(0) \o write_zeroes(2 * 3))
      [] b.type = "smhd" -> Ok(write_i16(0) \o write_zeroes(2))
      [] b.type = "dinf" -> write_box(b.dref_box)
      [] b.type = "dref" -> Cat(Ok(write_u32(1)), write_box(b.url_box))
      [] b.type = "url " -> Ok(<<>>)
      [] b.type = "stbl" ->
            Cat(write_box(b.stsd_box),
                Cat(write_box(b.stts_box),
                    Cat(write_box(b.stsc_box),
                        Cat(write_box(b.stsz_box), write_box(b.stco_box)))))
      [] b.type = "stsd" ->
            IF b.sample_entries = <<>> THEN Err("InvalidInput")
            ELSE Cat(Ok(write_u32(Len(b.sample_entries))), write_boxes(b.sample_entries))
      [] b.type = "stsz" -> Ok(write_u32(0) \o write_u32(0))
      [] b.type = "stts" -> Ok(write_u32(0))
      [] b.type = "stco" -> Ok(write_u32(0))
      [] b.type = "stsc" -> Ok(write_u32(0))
      [] b.type = "avc1" -> Cat(write_box_payload_without_avcc(b), write_box(b.avcc_box))
      [] b.type = "avcC" -> AvcDecoderConfigurationRecord_write_to(b.configuration)
      [] b.type = "mp4a" -> Cat(write_box_payload_without_esds(b), write_box(b.esds_box))
      [] b.type = "esds" ->
            Ok(<<3, 25>> \o write_u16(0) \o <<0>> \o <<4, 17>> \o <<64, 21>>
               \o write_u24(0) \o write_u32(0) \o write_u32(0) \o <<5, 2>>
               \o write_u16((b.profile + 1) * 2048 + b.frequency * 128
                            + b.channel_configuration * 8)
               \o <<6, 1, 2>>)
      [] b.type = "mdat" -> Ok(b.data)
      [] b.type = "moof" ->
            IF b.traf_boxes = <<>> THEN Err("InvalidInput")
            ELSE Cat(write_box(b.mfhd_box), write_boxes(b.traf_boxes))
      [] b.type = "mfhd" -> Ok(write_u32(b.sequence_number))
      [] b.type = "traf" ->
            Cat(write_box(b.tfhd_box), Cat(write_box(b.tfdt_box), write_box(b.trun_box)))
      [] b.type = "tfhd" ->
            Ok(write_u32(b.track_id)
               \o Opt(b.base_data_offset, write_zeroes(4) \o write_u32(b.base_data_offset[1]))
               \o Opt(b.sample_description_index, write_u32(b.sample_description_index[1]))
               \o Opt(b.default_sample_duration, write_u32(b.default_sample_duration[1]))
               \o Opt(b.default_sample_size, write_u32(b.default_sample_size[1]))
               \o Opt(b.default_sample_flags,
                      write_u32(SampleFlags_to_u32(b.default_sample_flags[1]))))
      [] b.type = "tfdt" -> Ok(write_u32(0))
      [] b.type = "trun" ->
            Cat(Ok(write_u32(Len(b.samples))
                   \o Opt(b.data_offset, write_i32(b.data_offset[1]))
                   \o Opt(b.first_sample_flags,
                          write_u32(SampleFlags_to_u32(b.first_sample_flags[1])))),
                WriteSamples(b.samples, None))

\* Mp4Box::box_payload_size of each concrete box
box_payload_size(b) ==
    CASE b.type = "ftyp" -> Ok(8)
      [] b.type = "moov" ->
            Plus(box_size(b.mvhd_box), Plus(boxes_size(b.trak_boxes), box_size(b.mvex_box)))
      [] b.type = "mvex" -> Plus(optional_box_size(b.mehd_box), boxes_size(b.trex_boxes))
      [] b.type = "mehd" -> Ok(4)
      [] b.type = "trex" -> Ok(4 * 5)
      [] b.type = "trak" ->
            Plus(box_size(b.tkhd_box), Plus(box_size(b.edts_box), box_size(b.mdia_box)))
      [] b.type = "edts" -> box_size(b.elst_box)
      [] b.type = "elst" -> Ok(4 + 4 + 4 + 2 + 2)
      [] b.type = "mdia" ->
            Plus(box_size(b.mdhd_box), Plus(box_size(b.hdlr_box), box_size(b.minf_box)))
      [] b.type = "mdhd" -> Ok(4 + 4 + 4 + 4 + 2 + 2)
      [] b.type = "minf" ->
            Plus(optional_box_size(b.vmhd_box),
                 Plus(optional_box_size(b.smhd_box),
                      Plus(box_size(b.dinf_box), box_size(b.stbl_box))))
      [] b.type = "vmhd" -> Ok(2 + 2 * 3)
      [] b.type = "smhd" -> Ok(2 + 2)
      [] b.type = "dinf" -> box_size(b.dref_box)
      [] b.type = "dref" -> Plus(Ok(4), box_size(b.url_box))
      [] b.type = "url " -> Ok(0)
      [] b.type = "stbl" ->
            Plus(box_size(b.stsd_box),
                 Plus(box_size(b.stts_box),
                      Plus(box_size(b.stsc_box),
                           Plus(box_size(b.stsz_box), box_size(b.stco_box)))))
      [] b.type = "stsd" -> Plus(Ok(4), boxes_size(b.sample_entries))
      [] b.type = "stsz" -> Ok(4 + 4)
      [] b.type = "stts" -> Ok(4)
      [] b.type = "stco" -> Ok(4)
      [] b.type = "stsc" -> Ok(4)
      [] b.type = "avc1" ->
            Plus(calculate(write_box_payload_without_avcc(b)), box_size(b.avcc_box))
      [] b.type = "avcC" ->
            calculate(AvcDecoderConfigurationRecord_write_to(b.configuration))
      [] b.type = "mp4a" ->
            Plus(calculate(write_box_payload_without_esds(b)), box_size(b.esds_box))
      [] b.type = "mdat" -> Ok(Len(b.data))
      [] b.type = "moof" -> Plus(box_size(b.mfhd_box), boxes_size(b.traf_boxes))
      [] b.type = "mfhd" -> Ok(4)
      [] b.type = "traf" ->
            Plus(box_size(b.tfhd_box), Plus(box_size(b.tfdt_box), box_size(b.trun_box)))
      [] b.type = "tfdt" -> Ok(4)
      [] b.type \in {"mvhd", "tkhd", "hdlr", "esds", "tfhd", "trun"} ->
            calculate(write_box_payload(b))

\* Mp4Box::box_size
\* a box_size that never counts the version/flags word
box_size_without_full_box_word(b) == Plus(Ok(8), box_payload_size(b))

\* Mp4Box::box_size
box_size(b) ==
    LET size == IF IsSome(box_version(b)) \/ IsSome(box_flags(b)) THEN 8 + 4 ELSE 8
    IN  Plus(Ok(size), box_payload_size(b))

\* Mp4Box::write_box
write_box(b) ==
    LET version == box_version(b)
        flags == box_flags(b)
        full_box_header ==
            (IF IsSome(version) THEN version[1] ELSE 0) * 16777216
            + (IF IsSome(flags) THEN flags[1] ELSE 0)
        Header(size) ==
            IF ~size.ok THEN size
            ELSE Cat(Ok(write_u32(size.val) \o BOX_TYPE(b.type)
                        \o (IF IsSome(version) \/ IsSome(flags)
                            THEN write_u32(full_box_header) ELSE <<>>)),
                     write_box_payload(b))
    IN  Header(box_size(b))

(***************************************************************************)
(* fmp4: the constructors and defaults of the boxes                        *)
(***************************************************************************)
VIDEO_TRACK_ID == 1
AUDIO_TRACK_ID == 2

TrackId(is_video) == IF is_video THEN VIDEO_TRACK_ID ELSE AUDIO_TRACK_ID

\* TrackExtendsBox::new
TrackExtendsBox_new(is_video) ==
    [type |-> "trex", track_id |-> TrackId(is_video),
     default_sample_description_index |-> 1, default_sample_duration |-> 0,
     default_sample_size |-> 0, default_sample_flags |-> 0]

\* SampleTableBox::default
SampleTableBox_default ==
    [type |-> "stbl",
     stsd_box |-> [type |-> "stsd", sample_entries |-> <<>>],
     stts_box |-> [type |-> "stts"], stsc_box |-> [type |-> "stsc"],
     stsz_box |-> [type |-> "stsz"], stco_box |-> [type |-> "stco"]]

\* MediaInformationBox::new
MediaInformationBox_new(is_video) ==
    [type |-> "minf",
     vmhd_box |-> IF is_video THEN Some([type |-> "vmhd"]) ELSE None,
     smhd_box |-> IF ~is_video THEN Some([type |-> "smhd"]) ELSE None,
     dinf_box |-> [type |-> "dinf",
                   dref_box |-> [type |-> "dref", url_box |-> [type |-> "url "]]],
     stbl_box |-> SampleTableBox_default]

\* MediaBox::new
MediaBox_new(is_video) ==
    [type |-> "mdia",
     mdhd_box |-> [type |-> "mdhd", timescale |-> 0, duration |-> W(1)],
     hdlr_box |-> [type |-> "hdlr",
                   handler_type |-> IF is_video THEN <<118, 105, 100, 101>>
                                    ELSE <<115, 111, 117, 110>>],
     minf_box |-> MediaInformationBox_new(is_video)]

\* TrackBox::new
TrackBox_new(is_video) ==
    [type |-> "trak",
     tkhd_box |-> [type |-> "tkhd", track_id |-> TrackId(is_video), duration |-> W(1),
                   volume |-> IF is_video THEN 0 ELSE 256, width |-> 0, height |-> 0],
     edts_box |-> [type |-> "edts", elst_box |-> [type |-> "elst", media_time |-> 0]],
     mdia_box |-> MediaBox_new(is_video)]

\* InitializationSegment::default
InitializationSegment_default ==
    [ftyp_box |-> [type |-> "ftyp"],
     moov_box |-> [type |-> "moov",
                   mvhd_box |-> [type |-> "mvhd", timescale |-> 1, duration |-> W(1)],
                   trak_boxes |-> <<>>,
                   mvex_box |-> [type |-> "mvex", mehd_box |-> None, trex_boxes |-> <<>>]]]

\* a track fragment that always names the video track
TrackFragmentBox_new_video_id(is_video) ==
    [type |-> "traf",
     tfhd_box |-> [type |-> "tfhd", track_id |-> VIDEO_TRACK_ID,
                   duration_is_empty |-> FALSE, default_base_is_moof |-> TRUE,
                   base_data_offset |-> None, sample_description_index |-> None,
                   default_sample_duration |-> None, default_sample_size |-> None,
                   default_sample_flags |-> None],
     tfdt_box |-> [type |-> "tfdt"],
     trun_box |-> [type |-> "trun", data_offset |-> None, first_sample_flags |-> None,
                   samples |-> <<>>]]

\* TrackFragmentBox::new
TrackFragmentBox_new(is_video) ==
    [type |-> "traf",
     tfhd_box |-> [type |-> "tfhd", track_id |-> TrackId(is_video),
                   duration_is_empty |-> FALSE, default_base_is_moof |-> TRUE,
                   base_data_offset |-> None, sample_description_index |-> None,
                   default_sample_duration |-> None, default_sample_size |-> None,
                   default_sample_flags |-> None],
     tfdt_box |-> [type |-> "tfdt"],
     trun_box |-> [type |-> "trun", data_offset |-> None, first_sample_flags |-> None,
                   samples |-> <<>>]]

\* MediaSegment::default
MediaSegment_default ==
    [moof_box |-> [type |-> "moof",
                   mfhd_box |-> [type |-> "mfhd", sequence_number |-> 1],
                   traf_boxes |-> <<>>],
     mdat_boxes |-> <<>>]

SampleFlags(depends_on, non_sync) ==
    [is_leading |-> 0, sample_depends_on |-> depends_on, sample_is_depdended_on |-> 0,
     sample_has_redundancy |-> 0, sample_padding_value |-> 0,
     sample_is_non_sync_sample |-> non_sync, sample_degradation_priority |-> 0]

\* InitializationSegment::write_to
InitializationSegment_write_to(segment) ==
    Cat(write_box(segment.ftyp_box), write_box(segment.moov_box))

\* MediaSegment::write_to
MediaSegment_write_to(segment) ==
    IF segment.mdat_boxes = <<>> THEN Err("InvalidInput")
    ELSE Cat(write_box(segment.moof_box), write_boxes(segment.mdat_boxes))

(***************************************************************************)
(* mpeg2_ts.rs: timing resolution and the two segments                     *)
(***************************************************************************)
\* the order of (u64, usize) tuples
PairLess(a, b) == WLess(a[1], b[1]) \/ (a[1] = b[1] /\ a[2] < b[2])

RECURSIVE InsertSorted(_, _)
InsertSorted(x, sorted) ==
    IF sorted = <<>> THEN <<x>>
    ELSE IF PairLess(x, Head(sorted)) THEN <<x>> \o sorted
    ELSE <<Head(sorted)>> \o InsertSorted(x, Tail(sorted))

\* avc_timestamps.sort()
RECURSIVE Sort(_)
Sort(pairs) == IF pairs = <<>> THEN <<>> ELSE InsertSorted(Head(pairs), Sort(Tail(pairs)))

\* lines 330-333: the loop over consecutive pairs of the sorted timestamps
RECURSIVE AssignDurations(_, _, _)
AssignDurations(samples, sorted, k) ==
    IF k >= Len(sorted) THEN samples
    ELSE LET curr == sorted[k][1]
             next == sorted[k + 1][1]
             i == sorted[k + 1][2]
             duration == WSub(next, curr)
         IN  AssignDurations([samples EXCEPT ![i + 1].duration = Some(AsU32(duration))],
                             sorted, k + 1)

\* AvcStream::start_time
start_time(samples) ==
    IF Len(samples) > 0 /\ IsSome(samples[1].composition_time_offset)
    THEN samples[1].composition_time_offset[1]
    ELSE 0

\* a timing resolution without the assignment to the first sample
ResolveTimingPairsOnly(samples, timestamps) ==
    AssignDurations(samples, Sort(timestamps), 1)

\* lines 329-336: the durations of the video samples
ResolveTiming(samples, timestamps) ==
    LET paired == AssignDurations(samples, Sort(timestamps), 1)
    IN  IF Len(paired) > 0
        THEN [paired EXCEPT ![1].duration = Some(W(Max(0, start_time(paired))))]
        ELSE paired

\* AvcStream::duration
RECURSIVE AvcStream_duration(_, _)
AvcStream_duration(samples, duration) ==
    IF samples = <<>> THEN Ok(duration)
    ELSE IF IsNone(Head(samples).duration) THEN Err("InvalidInput")
    ELSE LET sum == checked_add(duration, Head(samples).duration[1])
         IN  IF IsNone(sum) THEN Err("InvalidInput")
             ELSE AvcStream_duration(Tail(samples), sum[1])

\* AacStream::duration (the product stays far below 2^32 here)
AacStream_duration(samples) == Ok(W(SAMPLES_IN_FRAME * Len(samples)))

\* make_initialization_segment
make_initialization_segment(avc_stream_, aac_stream_) ==
    LET video_duration == AvcStream_duration(avc_stream_.samples, W(0))
        audio_duration == AacStream_duration(aac_stream_.samples)
    IN  IF ~video_duration.ok THEN video_duration
        ELSE IF ~audio_duration.ok THEN audio_duration
        ELSE
        LET segment0 == InitializationSegment_default
            audio_longer == WLess(video_duration.val, audio_duration.val)
            timescale == IF audio_longer THEN SAMPLES_IN_FRAME ELSE Timestamp_RESOLUTION
            duration == IF audio_longer THEN audio_duration.val ELSE video_duration.val
            video0 == TrackBox_new(TRUE)
            video_track ==
                [video0 EXCEPT
                    !.tkhd_box.width = avc_stream_.width * 65536,
                    !.tkhd_box.height = avc_stream_.height * 65536,
                    !.tkhd_box.duration = video_duration.val,
                    !.edts_box.elst_box.media_time = start_time(avc_stream_.samples),
                    !.mdia_box.mdhd_box.timescale = Timestamp_RESOLUTION,
                    !.mdia_box.mdhd_box.duration = video_duration.val,
                    !.mdia_box.minf_box.stbl_box.stsd_box.sample_entries =
                        Append(@, [type |-> "avc1",
                                   width |-> avc_stream_.width % 65536,
                                   height |-> avc_stream_.height % 65536,
                                   avcc_box |-> [type |-> "avcC",
                                                 configuration |-> avc_stream_.configuration]])]
            audio0 == TrackBox_new(FALSE)
            audio_track ==
                [audio0 EXCEPT
                    !.tkhd_box.duration = audio_duration.val,
                    !.mdia_box.mdhd_box.timescale =
                        as_u32(aac_stream_.adts_header.sampling_frequency),
                    !.mdia_box.mdhd_box.duration = audio_duration.val,
                    !.mdia_box.minf_box.stbl_box.stsd_box.sample_entries =
                        Append(@, [type |-> "mp4a",
                                   esds_box |->
                                     [type |-> "esds",
                                      profile |-> aac_stream_.adts_header.profile,
                                      frequency |-> aac_stream_.adts_header.sampling_frequency,
                                      channel_configuration |->
                                          aac_stream_.adts_header.channel_configuration]])]
        IN  Ok([segment0 EXCEPT
                    !.moov_box.mvhd_box.timescale = timescale,
                    !.moov_box.mvhd_box.duration = duration,
                    !.moov_box.mvex_box.mehd_box =
                        Some([type |-> "mehd", fragment_duration |-> duration]),
                    !.moov_box.trak_boxes = <<video_track, audio_track>>,
                    !.moov_box.mvex_box.trex_boxes =
                        <<TrackExtendsBox_new(TRUE), TrackExtendsBox_new(FALSE)>>])

\* make_media_segment with the byte counter started afresh for the mdat
make_media_segment_counter_reset(avc_stream_, aac_stream_) ==
    LET video0 == TrackFragmentBox_new(TRUE)
        video_traf ==
            [video0 EXCEPT
                !.tfhd_box.default_sample_flags = Some(SampleFlags(1, TRUE)),
                !.trun_box.data_offset = Some(0),
                !.trun_box.first_sample_flags = Some(SampleFlags(2, FALSE)),
                !.trun_box.samples = avc_stream_.samples]
        audio0 == TrackFragmentBox_new(FALSE)
        audio_traf ==
            [audio0 EXCEPT
                !.tfhd_box.default_sample_duration = Some(SAMPLES_IN_FRAME),
                !.trun_box.data_offset = Some(0),
                !.trun_box.samples = aac_stream_.samples]
        mdat0 == [type |-> "mdat", data |-> avc_stream_.data]
        Offsets(moof0, written_moof, written_mdat) ==
            IF ~written_moof.ok THEN written_moof
            ELSE IF ~written_mdat.ok THEN written_mdat
            ELSE Ok([moof_box |->
                        [moof0 EXCEPT
                            !.traf_boxes[1].trun_box.data_offset =
                                Some(Len(written_moof.val) + 8),
                            !.traf_boxes[2].trun_box.data_offset =
                                Some(Len(written_mdat.val) + 8)],
                     mdat_boxes |-> <<mdat0, [type |-> "mdat", data |-> aac_stream_.data]>>])
        Write(moof0) == Offsets(moof0, write_box(moof0), write_box(mdat0))
    IN  Write([MediaSegment_default.moof_box EXCEPT
                  !.traf_boxes = <<video_traf, audio_traf>>])

\* make_media_segment
make_media_segment(avc_stream_, aac_stream_) ==
    LET video0 == TrackFragmentBox_new(TRUE)
        video_traf ==
            [video0 EXCEPT
                !.tfhd_box.default_sample_flags = Some(SampleFlags(1, TRUE)),
                !.trun_box.data_offset = Some(0),
                !.trun_box.first_sample_flags = Some(SampleFlags(2, FALSE)),
                !.trun_box.samples = avc_stream_.samples]
        audio0 == TrackFragmentBox_new(FALSE)
        audio_traf ==
            [audio0 EXCEPT
                !.tfhd_box.default_sample_duration = Some(SAMPLES_IN_FRAME),
                !.trun_box.data_offset = Some(0),
                !.trun_box.samples = aac_stream_.samples]
        mdat0 == [type |-> "mdat", data |-> avc_stream_.data]
        \* counter1, counter2: what the ByteCounter both write_box calls write
        \* into holds after the moof and after the first mdat
        Offsets(moof0, written_moof, written_mdat) ==
            IF ~written_moof.ok THEN written_moof
            ELSE IF ~written_mdat.ok THEN written_mdat
            ELSE LET counter1 == Len(written_moof.val)
                     counter2 == counter1 + Len(written_mdat.val)
                 IN  Ok([moof_box |->
                            [moof0 EXCEPT
                                !.traf_boxes[1].trun_box.data_offset = Some(counter1 + 8),
                                !.traf_boxes[2].trun_box.data_offset = Some(counter2 + 8)],
                         mdat_boxes |->
                            <<mdat0, [type |-> "mdat", data |-> aac_stream_.data]>>])
        Write(moof0) == Offsets(moof0, write_box(moof0), write_box(mdat0))
    IN  Write([MediaSegment_default.moof_box EXCEPT
                  !.traf_boxes = <<video_traf, audio_traf>>])

(***************************************************************************)
(* to_fmp4 after the loop: lines 326-338 and 24-30                         *)
(***************************************************************************)
Outcome(p, e, avc, segs) == [pc |-> p, err |-> e, avc_stream |-> avc, segments |-> segs]

\* an end of input that reports a missing stream as Unsupported
FinishMissingUnsupported(avc, aac, timestamps) ==
    IF IsNone(avc) \/ IsNone(aac) THEN Outcome("failed", "Unsupported", avc, None)
    ELSE
    LET Segments(resolved, initialization_segment, media_segment) ==
            IF ~initialization_segment.ok \/ ~media_segment.ok
            THEN Outcome("failed", "InvalidInput", Some(resolved), None)
            ELSE Outcome("done", "", Some(resolved),
                         Some([init |-> initialization_segment.val,
                               media |-> media_segment.val]))
        Make(resolved) ==
            Segments(resolved, make_initialization_segment(resolved, aac[1]),
                     make_media_segment(resolved, aac[1]))
    IN  Make([avc[1] EXCEPT !.samples = ResolveTiming(@, timestamps)])

\* lines 326-338 of read_avc_aac_stream, then to_fmp4
Finish(avc, aac, timestamps) ==
    IF IsNone(avc) THEN Outcome("failed", "InvalidInput", avc, None)
    ELSE IF IsNone(aac) THEN Outcome("failed", "InvalidInput", avc, None)
    ELSE
    LET Segments(resolved, initialization_segment, media_segment) ==
            IF ~initialization_segment.ok
            THEN Outcome("failed", initialization_segment.err, Some(resolved), None)
            ELSE IF ~media_segment.ok
            THEN Outcome("failed", media_segment.err, Some(resolved), None)
            ELSE Outcome("done", "", Some(resolved),
                         Some([init |-> initialization_segment.val,
                               media |-> media_segment.val]))
        \* to_fmp4: the two segments of the streams read_avc_aac_stream returns
        Make(resolved) ==
            Segments(resolved, make_initialization_segment(resolved, aac[1]),
                     make_media_segment(resolved, aac[1]))
    IN  Make([avc[1] EXCEPT !.samples = ResolveTiming(@, timestamps)])

(***************************************************************************)
(* The inputs: PMTs and PES packets, each PES carried whole by the TS      *)
(* packet that starts it.                                                  *)
(***************************************************************************)
MaxPes == 3
MaxPmt == 1

\* the PIDs and stream ids the inputs use
Ids == [video_pid |-> 256, audio_pid |-> 257,
        video_stream |-> 224, audio_stream |-> 192, private_stream |-> 189]
VIDEO_PID == Ids.video_pid
AUDIO_PID == Ids.audio_pid
VIDEO_STREAM_ID == Ids.video_stream
AUDIO_STREAM_ID == Ids.audio_stream
PRIVATE_STREAM_ID == Ids.private_stream

PmtTables ==
    { {<<VIDEO_PID, "H264">>, <<AUDIO_PID, "AdtsAac">>},
      {<<VIDEO_PID, "Mpeg2Video">>, <<AUDIO_PID, "Mpeg1Audio">>} }

\* NAL units: an SPS of the Baseline profile, 320x240, progressive and
\* uncropped; the same with profile_idc 100; a PPS; an IDR slice; a non-IDR
\* slice
SPS_BASELINE == <<103, 66, 0, 30, 244, 10, 15, 208>>
SPS_HIGH == <<103, 100, 0, 30, 244, 10, 15, 208>>
PPS == <<104, 206>>
IDR == <<101, 136>>
SLICE == <<65, 154>>

V_FULL == <<0, 0, 0, 1>> \o SPS_BASELINE \o <<0, 0, 1>> \o PPS \o <<0, 0, 1>> \o IDR
V_SLICE == <<0, 0, 1>> \o SLICE
V_NOSPS == <<0, 0, 1>> \o PPS \o <<0, 0, 1>> \o IDR
V_NOPPS == <<0, 0, 0, 1>> \o SPS_BASELINE \o <<0, 0, 1>> \o IDR
V_HIGH_NOPPS == <<0, 0, 1>> \o SPS_HIGH \o <<0, 0, 1>> \o IDR
V_NOSTART == IDR

\* a High SPS cut off after level_idc; two SPS (level 3.0, then level 3.1)
\* ahead of the PPS; the level 3.1 SPS alone with a PPS
SPS_HIGH_SHORT == <<103, 100, 0, 30>>
SPS_LEVEL31 == <<103, 66, 0, 31, 244, 10, 15, 208>>
V_HIGH_SHORT == <<0, 0, 1>> \o SPS_HIGH_SHORT \o <<0, 0, 1>> \o PPS
V_TWO_SPS ==
    <<0, 0, 1>> \o SPS_BASELINE \o <<0, 0, 1>> \o SPS_LEVEL31 \o <<0, 0, 1>> \o PPS
V_LEVEL31 == <<0, 0, 1>> \o SPS_LEVEL31 \o <<0, 0, 1>> \o PPS \o <<0, 0, 1>> \o SLICE

VideoPayloads ==
    {V_FULL, V_SLICE, V_NOSPS, V_NOPPS, V_HIGH_NOPPS, V_NOSTART, V_HIGH_SHORT, V_TWO_SPS}

\* <<pts, dts>> of a video PES, in 90 kHz ticks
VideoTimings ==
    { <<None, None>>, <<Some(W(0)), None>>, <<Some(W(1500)), None>>,
      <<Some(W(3000)), None>>, <<Some(W(3000)), Some(W(0))>> }

\* a PTS 1500 ticks before the 33-bit clock wraps
PTS_BEFORE_WRAP == [hi |-> 7, lo |-> Limb - 1500]

\* <<pts, dts>> of a first video PES and of a later one
FirstTimings == { <<Some(PTS_BEFORE_WRAP), None>>, <<Some(W(3003)), Some(W(0))>> }
LaterTimings == { <<Some(W(0)), Some(W(1501))>> }

\* ADTS frames: 48 kHz mono AAC-LC with 2 payload bytes; 44.1 kHz stereo;
\* a frame without the sync word; 96 kHz mono; 48 kHz with 6 channels
ADTS_48K == <<255, 241, 76, 64, 1, 63, 252>> \o <<33, 34>>
ADTS_44K == <<255, 241, 80, 128, 1, 63, 252>> \o <<35, 36>>
ADTS_NOSYNC == <<0, 241, 76, 64, 1, 63, 252>> \o <<33, 34>>
ADTS_96K == <<255, 241, 64, 64, 1, 63, 252>> \o <<37, 38>>
ADTS_6CH == <<255, 241, 77, 128, 1, 63, 252>> \o <<39, 40>>

AudioPayloads ==
    {ADTS_48K, ADTS_48K \o ADTS_48K, ADTS_44K, ADTS_NOSYNC, ADTS_96K, ADTS_6CH}

Pes(pid, stream_id, pts, dts, data) ==
    [pid |-> pid, stream_id |-> stream_id, pts |-> pts, dts |-> dts, data |-> data]

VideoInputs ==
    { Pes(VIDEO_PID, VIDEO_STREAM_ID, Some(W(0)), None, d) : d \in VideoPayloads }
    \cup { Pes(VIDEO_PID, VIDEO_STREAM_ID, t[1], t[2], d) :
              t \in VideoTimings, d \in {V_FULL, V_SLICE} }
    \cup { Pes(VIDEO_PID, VIDEO_STREAM_ID, t[1], t[2], V_FULL) : t \in FirstTimings }
    \cup { Pes(VIDEO_PID, VIDEO_STREAM_ID, t[1], t[2], V_SLICE) : t \in LaterTimings }
    \cup { Pes(VIDEO_PID, VIDEO_STREAM_ID, Some(W(1500)), None, V_LEVEL31),
           Pes(VIDEO_PID, VIDEO_STREAM_ID, None, None, V_HIGH_NOPPS),
           Pes(AUDIO_PID, VIDEO_STREAM_ID, Some(W(0)), None, V_FULL) }

AudioInputs ==
    { Pes(AUDIO_PID, AUDIO_STREAM_ID, Some(W(0)), None, d) : d \in AudioPayloads }
    \cup { Pes(AUDIO_PID, AUDIO_STREAM_ID, None, None, ADTS_48K),
           Pes(VIDEO_PID, AUDIO_STREAM_ID, Some(W(0)), None, ADTS_48K) }

OtherInputs == { Pes(AUDIO_PID, PRIVATE_STREAM_ID, None, None, <<>>) }

PesInputs == VideoInputs \cup AudioInputs \cup OtherInputs

(***************************************************************************)
(* The conversion as a state machine                                       *)
(***************************************************************************)
EmptyMap == <<>>

Init ==
    /\ pc = "reading"
    /\ err = ""
    /\ pid_to_stream_type = EmptyMap
    /\ stream_id_to_pid = EmptyMap
    /\ avc_stream = None
    /\ aac_stream = None
    /\ avc_timestamps = <<>>
    /\ avc_timestamp_offset = W(0)
    /\ pes = None
    /\ segments = None
    /\ reads = [pmt |-> 0, pes |-> 0, video |-> 0, audio |-> 0, eof |-> FALSE]
    /\ box = None
    /\ out = None

\* TsPacketReader::read_ts_packet on a PMT
read_pmt(table) ==
    /\ pc = "reading"
    /\ reads.pmt < MaxPmt
    /\ pid_to_stream_type' = InsertAll(pid_to_stream_type, table)
    /\ reads' = [reads EXCEPT !.pmt = @ + 1]
    /\ UNCHANGED <<pc, err, stream_id_to_pid, avc_stream, aac_stream, avc_timestamps,
                   avc_timestamp_offset, pes, segments, box, out>>

\* TsPacketReader::read_ts_packet on the packet of a PES, and the pass of the
\* loop of read_avc_aac_stream that consumes the PES
\* (while fewer than `limit` PES packets were read)
read_pes_within(p, limit) ==
    /\ pc = "reading"
    /\ reads.pes < limit
    /\ LET Pass(r) ==
               /\ pc' = r.pc
               /\ err' = r.err
               /\ avc_stream' = r.avc_stream
               /\ aac_stream' = r.aac_stream
               /\ avc_timestamps' = r.avc_timestamps
               /\ avc_timestamp_offset' = r.avc_timestamp_offset
           Resolve(s2p, stream_type) ==
               /\ stream_id_to_pid' = s2p
               /\ pes' = Some([packet |-> p, stream_type |-> stream_type])
               /\ Pass(LoopBody(p, stream_type, avc_stream, aac_stream, avc_timestamps,
                                avc_timestamp_offset))
           Packet(s2p) == Resolve(s2p, get_stream_type(s2p, pid_to_stream_type, p.stream_id))
       IN  Packet(read_ts_packet_pes(stream_id_to_pid, pid_to_stream_type,
                                     p.pid, p.stream_id))
    /\ reads' = [reads EXCEPT
                    !.pes = @ + 1,
                    !.video = IF StreamId_is_video(p.stream_id) THEN @ + 1 ELSE @,
                    !.audio = IF StreamId_is_audio(p.stream_id) THEN @ + 1 ELSE @]
    /\ UNCHANGED <<pid_to_stream_type, segments, box, out>>

\* the same, for an input of at most MaxPes PES packets
read_pes_packet(p) == read_pes_within(p, MaxPes)

\* read_pes_packet returns None: the rest of read_avc_aac_stream and to_fmp4
end_of_stream ==
    /\ pc = "reading"
    /\ LET Return(r) ==
               /\ pc' = r.pc
               /\ err' = r.err
               /\ avc_stream' = r.avc_stream
               /\ segments' = r.segments
       IN  Return(Finish(avc_stream, aac_stream, avc_timestamps))
    /\ reads' = [reads EXCEPT !.eof = TRUE]
    /\ UNCHANGED <<pid_to_stream_type, stream_id_to_pid, aac_stream, avc_timestamps,
                   avc_timestamp_offset, pes, box, out>>

Next ==
    \/ \E table \in PmtTables : read_pmt(table)
    \/ \E p \in PesInputs : read_pes_packet(p)
    \/ end_of_stream

Spec == Init /\ [][Next]_vars

(***************************************************************************)
(* Properties of the conversion                                            *)
(***************************************************************************)
Returned == pc = "done" /\ IsSome(segments)
TheInit == segments[1].init
TheMedia == segments[1].media
VideoTrun == TheMedia.moof_box.traf_boxes[1].trun_box
AudioTrun == TheMedia.moof_box.traf_boxes[2].trun_box
VideoPayload == TheMedia.mdat_boxes[1].data
AudioPayload == TheMedia.mdat_boxes[2].data
MoofSize == Len(write_box(TheMedia.moof_box).val)
SegmentBytes == MediaSegment_write_to(TheMedia).val

\* C1: in every returned media segment, the video trun's data_offset is the
\* serialized size of the moof plus 8 and the audio trun's is that plus the
\* video payload length plus 8, and counted from the first byte of the moof
\* each offset is where that track's own mdat payload starts.
C1_DataOffsets ==
    Returned =>
        LET written == MediaSegment_write_to(TheMedia)
            moof_size == MoofSize
            video_offset == Unwrap(VideoTrun.data_offset)
            audio_offset == Unwrap(AudioTrun.data_offset)
        IN  /\ VideoTrun.data_offset = Some(moof_size + 8)
            /\ AudioTrun.data_offset = Some(moof_size + 8 + Len(VideoPayload) + 8)
            /\ written.ok
            /\ Take(Drop(written.val, video_offset), Len(VideoPayload)) = VideoPayload
            /\ Drop(written.val, audio_offset) = AudioPayload
            /\ Take(Drop(written.val, video_offset - 8), 8)
                  = write_u32(8 + Len(VideoPayload)) \o BOX_TYPE("mdat")
            /\ Take(Drop(written.val, audio_offset - 8), 8)
                  = write_u32(8 + Len(AudioPayload)) \o BOX_TYPE("mdat")

\* a returned segment whose two payloads differ in length and content
C1_Witness ==
    /\ Returned
    /\ Len(VideoPayload) > Len(AudioPayload)
    /\ Len(AudioPayload) > 0
    /\ Len(VideoTrun.samples) >= 2
    /\ Unwrap(AudioTrun.data_offset) > Unwrap(VideoTrun.data_offset) + Len(AudioPayload)

(***************************************************************************)
(* The box serializer on its own: a box is handed to box_size and          *)
(* write_box.                                                              *)
(***************************************************************************)
MaxSamples == 2

\* the boxes a box holds
Children(b) ==
    CASE b.type = "moov" -> {b.mvhd_box, b.mvex_box} \cup Range(b.trak_boxes)
      [] b.type = "mvex" -> Range(b.mehd_box) \cup Range(b.trex_boxes)
      [] b.type = "trak" -> {b.tkhd_box, b.edts_box, b.mdia_box}
      [] b.type = "edts" -> {b.elst_box}
      [] b.type = "mdia" -> {b.mdhd_box, b.hdlr_box, b.minf_box}
      [] b.type = "minf" -> Range(b.vmhd_box) \cup Range(b.smhd_box)
                            \cup {b.dinf_box, b.stbl_box}
      [] b.type = "dinf" -> {b.dref_box}
      [] b.type = "dref" -> {b.url_box}
      [] b.type = "stbl" -> {b.stsd_box, b.stts_box, b.stsc_box, b.stsz_box, b.stco_box}
      [] b.type = "stsd" -> Range(b.sample_entries)
      [] b.type = "avc1" -> {b.avcc_box}
      [] b.type = "mp4a" -> {b.esds_box}
      [] b.type = "moof" -> {b.mfhd_box} \cup Range(b.traf_boxes)
      [] b.type = "traf" -> {b.tfhd_box, b.tfdt_box, b.trun_box}
      [] OTHER -> {}

RECURSIVE Descendants(_)
Descendants(b) == {b} \cup UNION { Descendants(c) : c \in Children(b) }

\* the streams of one video PES and of one audio PES
StreamsOf(video, audio) ==
    LET v == LoopBody(video, Some("H264"), None, None, <<>>, W(0))
        a == LoopBody(audio, Some("AdtsAac"), None, None, <<>>, W(0))
    IN  [avc |-> [v.avc_stream[1] EXCEPT
                     !.samples = ResolveTiming(@, v.avc_timestamps)],
         aac |-> a.aac_stream[1]]

SegmentBoxes ==
    UNION { LET s == StreamsOf(Pes(VIDEO_PID, VIDEO_STREAM_ID, t[1], t[2], V_FULL),
                               Pes(AUDIO_PID, AUDIO_STREAM_ID, Some(W(0)), None, d))
                i == make_initialization_segment(s.avc, s.aac).val
                m == make_media_segment(s.avc, s.aac).val
            IN  Descendants(i.ftyp_box) \cup Descendants(i.moov_box)
                \cup Descendants(m.moof_box) \cup Range(m.mdat_boxes)
          : t \in VideoTimings \ {<<None, None>>},
            d \in AudioPayloads \ {ADTS_NOSYNC} }

\* boxes left as their constructors make them
DefaultBoxes ==
    Descendants(InitializationSegment_default.moov_box)
    \cup Descendants(MediaSegment_default.moof_box)
    \cup UNION { Descendants(TrackBox_new(v)) \cup Descendants(TrackFragmentBox_new(v))
                 \cup {TrackExtendsBox_new(v)} : v \in BOOLEAN }

SampleShapes ==
    { Sample(d, z, f, c) :
        d \in {None, Some(W(SAMPLES_IN_FRAME))}, z \in {None, Some(2)},
        f \in {None, Some(SampleFlags(1, TRUE))}, c \in {None, Some(-1)} }

RECURSIVE SeqsUpTo(_, _)
SeqsUpTo(S, n) ==
    IF n = 0 THEN {<<>>}
    ELSE LET shorter == SeqsUpTo(S, n - 1)
         IN  shorter \cup { Append(q, x) : q \in shorter, x \in S }

TrunBoxes ==
    { [type |-> "trun", data_offset |-> o, first_sample_flags |-> f, samples |-> q] :
        o \in {None, Some(-1)}, f \in {None, Some(SampleFlags(2, FALSE))},
        q \in SeqsUpTo(SampleShapes, MaxSamples) }

TfhdBoxes ==
    { [TrackFragmentBox_new(TRUE).tfhd_box EXCEPT
          !.base_data_offset = o, !.sample_description_index = o,
          !.default_sample_duration = d, !.default_sample_flags = f,
          !.duration_is_empty = e, !.default_base_is_moof = ~e] :
        o \in {None, Some(1)}, d \in {None, Some(SAMPLES_IN_FRAME)},
        f \in {None, Some(SampleFlags(1, TRUE))}, e \in BOOLEAN }

\* a fragment header numbered 0, alone and in a moof that is otherwise whole
ZeroSequenceBoxes ==
    { [type |-> "mfhd", sequence_number |-> 0],
      [MediaSegment_default.moof_box EXCEPT
          !.mfhd_box.sequence_number = 0,
          !.traf_boxes = <<TrackFragmentBox_new(TRUE), TrackFragmentBox_new(FALSE)>>] }

BoxInputs == SegmentBoxes \cup DefaultBoxes \cup TrunBoxes \cup TfhdBoxes
             \cup ZeroSequenceBoxes

\* the segments handed to WriteTo::write_to: the two defaults, the segments
\* to_fmp4 makes, and those media segments with their mdat boxes taken away
SegmentInputs ==
    {InitializationSegment_default, MediaSegment_default}
    \cup UNION { LET s == StreamsOf(Pes(VIDEO_PID, VIDEO_STREAM_ID, Some(W(0)), None, V_FULL),
                                    Pes(AUDIO_PID, AUDIO_STREAM_ID, Some(W(0)), None, d))
                     m == make_media_segment(s.avc, s.aac).val
                 IN  {make_initialization_segment(s.avc, s.aac).val, m,
                      [m EXCEPT !.mdat_boxes = <<>>]}
               : d \in AudioPayloads \ {ADTS_NOSYNC} }

InitBox ==
    /\ err = ""
    /\ pid_to_stream_type = EmptyMap
    /\ stream_id_to_pid = EmptyMap
    /\ avc_stream = None
    /\ aac_stream = None
    /\ avc_timestamps = <<>>
    /\ avc_timestamp_offset = W(0)
    /\ pes = None
    /\ segments = None
    /\ reads = [pmt |-> 0, pes |-> 0, video |-> 0, audio |-> 0, eof |-> FALSE]
    /\ \/ pc = "box" /\ box \in { Some(b) : b \in BoxInputs }
       \/ pc = "segment" /\ box \in { Some(b) : b \in SegmentInputs }
    /\ out = None

\* Mp4Box::box_size and Mp4Box::write_box of the box
write ==
    /\ pc = "box"
    /\ out = None
    /\ out' = Some([size |-> box_size(box[1]), written |-> write_box(box[1])])
    /\ pc' = "written"
    /\ UNCHANGED <<err, pid_to_stream_type, stream_id_to_pid, avc_stream, aac_stream,
                   avc_timestamps, avc_timestamp_offset, pes, segments, reads, box>>

\* WriteTo::write_to of the segment
write_to ==
    /\ pc = "segment"
    /\ out = None
    /\ out' = Some([written |-> IF "moof_box" \in DOMAIN box[1]
                                 THEN MediaSegment_write_to(box[1])
                                 ELSE InitializationSegment_write_to(box[1])])
    /\ pc' = "written_to"
    /\ UNCHANGED <<err, pid_to_stream_type, stream_id_to_pid, avc_stream, aac_stream,
                   avc_timestamps, avc_timestamp_offset, pes, segments, reads, box>>

NextBox == write \/ write_to

SpecBox == InitBox /\ [][NextBox]_vars

TheBox == box[1]
Written == out[1].written
WroteBox == pc = "written" /\ Written.ok
be_u32(bytes) == ((bytes[1] * 256 + bytes[2]) * 256 + bytes[3]) * 256 + bytes[4]
IsFullBox(b) == IsSome(box_version(b)) \/ IsSome(box_flags(b))
FullBoxWord(b) ==
    write_u32((IF IsSome(box_version(b)) THEN box_version(b)[1] ELSE 0) * 16777216
              + (IF IsSome(box_flags(b)) THEN box_flags(b)[1] ELSE 0))

\* C2: when write_box succeeds the number of bytes it emits is box_size(),
\* which is also the big-endian u32 in the first four bytes, and the 4-byte
\* version/flags word follows the type (and is counted in the size) exactly
\* when box_version() or box_flags() is present.
C2_BoxSize ==
    WroteBox =>
        /\ out[1].size.ok
        /\ Len(Written.val) = out[1].size.val
        /\ be_u32(Take(Written.val, 4)) = out[1].size.val
        /\ Take(Drop(Written.val, 4), 4) = BOX_TYPE(TheBox.type)
        /\ write_box_payload(TheBox).ok
        /\ Len(Written.val) - Len(write_box_payload(TheBox).val)
              = (IF IsFullBox(TheBox) THEN 8 + 4 ELSE 8)
        /\ IsFullBox(TheBox) => Take(Drop(Written.val, 8), 4) = FullBoxWord(TheBox)
        /\ Drop(Written.val, IF IsFullBox(TheBox) THEN 8 + 4 ELSE 8)
              = write_box_payload(TheBox).val

\* a full box and a plain box, both written
C2_Witness == WroteBox /\ IsFullBox(TheBox) /\ TheBox.type = "tkhd"
C2_PlainBoxWritten == WroteBox /\ ~IsFullBox(TheBox) /\ TheBox.type = "moov"

FieldSet(sample) ==
    { name \in {"duration", "size", "flags", "composition_time_offset"} :
        IsSome(sample[name]) }
FieldBit(name) ==
    CASE name = "duration" -> 256
      [] name = "size" -> 512
      [] name = "flags" -> 1024
      [] name = "composition_time_offset" -> 2048
\* the field set the flags of a written trun advertise
Advertised(bytes) ==
    { name \in {"duration", "size", "flags", "composition_time_offset"} :
        (be_u32(Take(Drop(bytes, 8), 4)) \div FieldBit(name)) % 2 = 1 }
FieldSetsDiffer(samples) ==
    \E i \in DOMAIN samples : FieldSet(samples[i]) # FieldSet(samples[1])

\* C6: writing a trun fails with InvalidInput whenever some sample's set of
\* present optional fields differs from the first sample's, and when the
\* write succeeds every sample has exactly the field set that bits 0x100,
\* 0x200, 0x400 and 0x800 of the written flags advertise.
C6_TrunFieldSets ==
    (pc = "written" /\ TheBox.type = "trun") =>
        /\ FieldSetsDiffer(TheBox.samples) =>
              ~Written.ok /\ Written.err = "InvalidInput"
        /\ Written.ok =>
              \A i \in DOMAIN TheBox.samples :
                  FieldSet(TheBox.samples[i]) = Advertised(Written.val)

\* a trun whose second sample lacks a field the first has was refused
C6_Witness ==
    /\ pc = "written"
    /\ TheBox.type = "trun"
    /\ Len(TheBox.samples) >= 2
    /\ FieldSetsDiffer(TheBox.samples)
    /\ ~Written.ok

\* a trun of two samples with all four fields was written
C6_UniformTrunWritten ==
    /\ WroteBox
    /\ TheBox.type = "trun"
    /\ Len(TheBox.samples) >= 2
    /\ Advertised(Written.val) = {"duration", "size", "flags", "composition_time_offset"}

(***************************************************************************)
(* Timing                                                                  *)
(***************************************************************************)
VideoSamples == avc_stream[1].samples
PresentationOrder == Sort(avc_timestamps)

\* C3: after timing resolution every video sample except the last in
\* presentation order has duration = the PTS of the next sample in
\* presentation order minus its own PTS.
C3_DurationIsGapToNext ==
    Returned =>
        \A k \in 1..(Len(PresentationOrder) - 1) :
            VideoSamples[PresentationOrder[k][2] + 1].duration
                = Some(WSub(PresentationOrder[k + 1][1], PresentationOrder[k][1]))

\* what the code leaves instead: the gap sits on the later sample of each
\* pair and the first sample in decode order holds max(0, start_time)
GapOnLaterSample ==
    Returned =>
        /\ VideoSamples[1].duration
              = Some(W(Max(0, Unwrap(VideoSamples[1].composition_time_offset))))
        /\ \A k \in 1..(Len(PresentationOrder) - 1) :
              PresentationOrder[k + 1][2] # 0 =>
                  VideoSamples[PresentationOrder[k + 1][2] + 1].duration
                      = Some(AsU32(WSub(PresentationOrder[k + 1][1],
                                        PresentationOrder[k][1])))

video_duration == AvcStream_duration(VideoSamples, W(0)).val
audio_duration == AacStream_duration(aac_stream[1].samples).val
audio_frequency == as_u32(aac_stream[1].adts_header.sampling_frequency)
Mvhd == TheInit.moov_box.mvhd_box
Mehd == TheInit.moov_box.mvex_box.mehd_box
\* durations small enough to be multiplied by a timescale
Narrow(w) == w.hi = 0 /\ w.lo < 16384
VideoLongerInRealTime ==
    video_duration.lo * audio_frequency >= audio_duration.lo * Timestamp_RESOLUTION

\* C4: in every returned initialization segment mvhd.duration and
\* mehd.fragment_duration are the larger of the video and the audio duration
\* once both are expressed in mvhd.timescale units: the track longer in real
\* time is the one chosen.
C4_DurationIsMaxInMvhdTimescale ==
    (Returned /\ Narrow(video_duration) /\ Narrow(audio_duration)
       /\ Narrow(Mvhd.duration)) =>
        /\ Mehd = Some([type |-> "mehd", fragment_duration |-> Mvhd.duration])
        /\ IF VideoLongerInRealTime
           THEN Mvhd.duration.lo * Timestamp_RESOLUTION
                    = video_duration.lo * Mvhd.timescale
           ELSE Mvhd.duration.lo * audio_frequency
                    = audio_duration.lo * Mvhd.timescale

\* C5: in every returned initialization segment mvhd.timescale is the native
\* timescale of the track whose duration became mvhd.duration: 90000 for the
\* video track, the audio sampling frequency in Hz for the audio track.
C5_TimescaleOfChosenTrack ==
    Returned =>
        /\ Mvhd.duration \in {video_duration, audio_duration}
        /\ (Mvhd.duration = video_duration /\ video_duration # audio_duration)
              => Mvhd.timescale = Timestamp_RESOLUTION
        /\ (Mvhd.duration = audio_duration /\ video_duration # audio_duration)
              => Mvhd.timescale = audio_frequency
        /\ Mvhd.timescale \in {Timestamp_RESOLUTION, audio_frequency}

(***************************************************************************)
(* The intake loop's refusals                                              *)
(***************************************************************************)
Consumed == IsSome(pes)
LastPes == pes[1].packet
LastType == pes[1].stream_type
Failed(kind) == pc = "failed" /\ err = kind
LastIsVideo == Consumed /\ LastPes.stream_id \in 224..239
LastIsAudio == Consumed /\ LastPes.stream_id \in 192..223
CurrentType(p) ==
    get_stream_type(read_ts_packet_pes(stream_id_to_pid, pid_to_stream_type,
                                       p.pid, p.stream_id),
                    pid_to_stream_type, p.stream_id)

TypeMismatch(stream_id, type) ==
    /\ IsSome(type)
    /\ \/ stream_id \in 224..239 /\ type # Some("H264")
       \/ stream_id \in 192..223 /\ type # Some("AdtsAac")

\* C7: every PES packet the intake loop consumed, video or audio, that
\* carries no PTS makes to_fmp4 fail with InvalidInput.
C7_NoPtsIsInvalidInput ==
    (Consumed /\ (LastIsVideo \/ LastIsAudio) /\ IsSome(LastType)
       /\ ~TypeMismatch(LastPes.stream_id, LastType) /\ IsNone(LastPes.pts))
        => Failed("InvalidInput")

\* C7 as the code has it: a video PES of an H.264 stream without PTS fails
\* with InvalidInput, and an audio PES is consumed the same way with or
\* without a PTS.
C7_VideoNoPtsIsInvalidInput ==
    /\ (LastIsVideo /\ LastType = Some("H264") /\ IsNone(LastPes.pts))
          => Failed("InvalidInput")
    /\ pc = "reading" =>
          \A p \in AudioInputs :
              LoopBody([p EXCEPT !.pts = None], CurrentType(p), avc_stream, aac_stream,
                       avc_timestamps, avc_timestamp_offset)
              = LoopBody(p, CurrentType(p), avc_stream, aac_stream,
                         avc_timestamps, avc_timestamp_offset)

\* an H.264 PES without PTS was refused after an audio PES without PTS had
\* been taken
C7_Witness ==
    /\ LastIsVideo
    /\ LastType = Some("H264")
    /\ IsNone(LastPes.pts)
    /\ Failed("InvalidInput")
    /\ IsSome(aac_stream)
    /\ reads.audio >= 1

C8_Refusals ==
    Consumed =>
        /\ TypeMismatch(LastPes.stream_id, LastType) => Failed("Unsupported")
        /\ IsNone(LastType) => Failed("InvalidInput")
        /\ (~LastIsVideo /\ ~LastIsAudio) => Failed("InvalidInput")

C8_NothingRecorded ==
    (reads'.pes # reads.pes /\ TypeMismatch(pes'[1].packet.stream_id, pes'[1].stream_type))
        => (avc_stream' = avc_stream /\ aac_stream' = aac_stream
            /\ avc_timestamps' = avc_timestamps)

\* C8: a PES whose stream_id is video but whose resolved stream type is not
\* H.264, or audio but not ADTS AAC, fails with Unsupported before any sample
\* of the packet is recorded; a PES that is neither video nor audio, or whose
\* stream type cannot be resolved, fails with InvalidInput.
C8_StreamTypeRefusals == []C8_Refusals /\ [][C8_NothingRecorded]_vars

\* a video PES on a PID of another stream type was refused while samples of
\* earlier packets were held
C8_Witness ==
    /\ LastIsVideo
    /\ TypeMismatch(LastPes.stream_id, LastType)
    /\ Failed("Unsupported")
    /\ IsSome(avc_stream)
    /\ Len(avc_stream[1].samples) = reads.video - 1

\* C9: when the input ends with no video PES consumed, or with no audio PES
\* consumed, to_fmp4 fails with InvalidInput; a segment pair is returned only
\* when at least one of each was consumed.
C9_BothStreamsRequired ==
    /\ (reads.eof /\ (reads.video = 0 \/ reads.audio = 0)) => Failed("InvalidInput")
    /\ Returned => (reads.eof /\ reads.video >= 1 /\ reads.audio >= 1)
    /\ (reads.eof /\ (IsNone(avc_stream) \/ IsNone(aac_stream))) => Failed("InvalidInput")

\* the input ended after video packets only
C9_Witness ==
    /\ reads.eof
    /\ reads.video >= 1
    /\ reads.audio = 0
    /\ IsSome(avc_stream)
    /\ Failed("InvalidInput")

\* the NAL units the scan of a packet visits
NalsOf(data) == IF NalUnits(data).ok THEN Range(NalUnits(data).val) ELSE {}
HasNal(data, nal_unit_type) ==
    \E u \in NalsOf(data) : u # <<>> /\ u[1] % 32 = nal_unit_type
\* every NAL unit of the packet has a readable header and every SPS parses
NalsReadable(data) ==
    \A u \in NalsOf(data) :
        /\ NalUnit_read_from(u).ok
        /\ (u # <<>> /\ u[1] % 32 = SequenceParameterSet)
              => SequenceParameterSet_read_from(Drop(u, 1)).ok
FirstVideoPes ==
    /\ LastIsVideo
    /\ reads.video = 1
    /\ LastType = Some("H264")
    /\ IsSome(LastPes.pts)
LacksParameterSet ==
    \/ ~HasNal(LastPes.data, SequenceParameterSet)
    \/ ~HasNal(LastPes.data, PictureParameterSet)

\* C10: if the first video PES holds no SPS NAL unit or no PPS NAL unit,
\* to_fmp4 fails with InvalidInput, whatever later packets would hold.
C10_MissingParameterSet ==
    (FirstVideoPes /\ LacksParameterSet) => Failed("InvalidInput")

\* C10 as the code has it: the same, for a packet whose NAL units are
\* readable and whose SPS, if any, parses; an SPS that does not parse fails
\* with its own error before the missing PPS is noticed.
C10_MissingParameterSetReadable ==
    (FirstVideoPes /\ LacksParameterSet /\ NalsReadable(LastPes.data))
        => (Failed("InvalidInput") /\ IsNone(avc_stream))

\* a first video PES with a Baseline SPS and no PPS was refused
C10_Witness ==
    /\ FirstVideoPes
    /\ HasNal(LastPes.data, SequenceParameterSet)
    /\ ~HasNal(LastPes.data, PictureParameterSet)
    /\ NalsReadable(LastPes.data)
    /\ Failed("InvalidInput")

(***************************************************************************)
(* The profiles of the SPS                                                 *)
(***************************************************************************)
\* the profiles of the High family
HighProfiles == {100, 110, 122} \cup {244, 44, 83, 86, 118, 128}
IsSps(u) == Len(u) >= 2 /\ u[1] % 32 = SequenceParameterSet
CarriesHighProfileSps(data) == \E u \in NalsOf(data) : IsSps(u) /\ u[2] \in HighProfiles

\* the scan reaches the profile check of an SPS of the High family: the
\* units ahead of it have readable headers, the SPS ahead of it parse, and
\* its own seq_parameter_set_id can be read
ScanReachesHighProfile(data) ==
    /\ NalUnits(data).ok
    /\ \E k \in DOMAIN NalUnits(data).val :
          LET units == NalUnits(data).val
          IN  /\ IsSps(units[k])
              /\ units[k][2] \in HighProfiles
              /\ Len(units[k]) >= 4
              /\ ReadFields(Drop(units[k], 4), 0, <<"ue">>, <<>>).ok
              /\ \A j \in 1..(k - 1) :
                    /\ NalUnit_read_from(units[j]).ok
                    /\ IsSps(units[j]) => SequenceParameterSet_read_from(Drop(units[j], 1)).ok

NoHighProfileStream ==
    IsSome(avc_stream) => avc_stream[1].configuration.profile_idc \notin HighProfiles

\* C11: a first video PES that carries an SPS whose profile_idc is one of
\* 100, 110, 122, 244, 44, 83, 86, 118, 128 makes the conversion fail with
\* Unsupported, and no AvcStream is ever built for such a profile.
C11_HighProfileUnsupported ==
    /\ (FirstVideoPes /\ CarriesHighProfileSps(LastPes.data))
          => (Failed("Unsupported") /\ IsNone(avc_stream))
    /\ NoHighProfileStream

\* C11 as the code has it: the same for an SPS whose profile check the scan
\* reaches; an SPS that ends before seq_parameter_set_id fails with the
\* error of the read.
C11_ReachedHighProfileUnsupported ==
    /\ (FirstVideoPes /\ ScanReachesHighProfile(LastPes.data))
          => (Failed("Unsupported") /\ IsNone(avc_stream))
    /\ NoHighProfileStream

\* a first video PES with an SPS of profile_idc 100 was refused
C11_Witness ==
    /\ FirstVideoPes
    /\ ScanReachesHighProfile(LastPes.data)
    /\ \E u \in NalsOf(LastPes.data) : IsSps(u) /\ u[2] = 100
    /\ Failed("Unsupported")
    /\ IsNone(avc_stream)

(***************************************************************************)
(* The 33-bit clock                                                        *)
(***************************************************************************)
TwoTo33 == [hi |-> 8, lo |-> 0]
\* the last video PES got as far as the push of its timestamp
TimestampPushed == LastIsVideo /\ LastType = Some("H264") /\ IsSome(LastPes.pts)
FirstPts == avc_timestamp_offset
LastTimestamp == avc_timestamps[Len(avc_timestamps)]
VideoDurations == [k \in DOMAIN avc_stream[1].samples |-> avc_stream[1].samples[k].duration]

BBeforeI ==
    /\ reads.eof
    /\ IsSome(avc_stream)
    /\ IsSome(aac_stream)
    /\ Len(avc_stream[1].samples) = 2
    /\ FirstPts = W(3003)
    /\ avc_stream[1].samples[1].composition_time_offset = Some(3003)
    /\ avc_stream[1].samples[2].composition_time_offset = Some(-1501)

\* C13: for the video PES (PTS 3003, DTS 0) followed by (PTS 0, DTS 1501),
\* the sample at decode index 1 has duration 3003 and the sample at decode
\* index 0 has duration start_time() = 0.
C13_BBeforeIDurations ==
    BBeforeI => VideoDurations = << Some(W(0)), Some(W(3003)) >>

\* what the code leaves for that input: the second PTS is taken to have
\* wrapped, its gap 2^33 - 3003 is cut to 32 bits, the first sample gets its
\* composition time offset, and the sum of the two overflows a u32, so that
\* AvcStream::duration and with it to_fmp4 fail
BBeforeIAsComputed ==
    BBeforeI =>
        /\ avc_timestamps = << <<W(0), 0>>, <<WSub(TwoTo33, W(3003)), 1>> >>
        /\ VideoDurations = << Some(W(3003)), Some([hi |-> 3, lo |-> Limb - 3003]) >>
        /\ start_time(avc_stream[1].samples) = 3003
        /\ Failed("InvalidInput")

(***************************************************************************)
(* The AVC configuration                                                   *)
(***************************************************************************)
\* the NAL units of a packet of the given type, in arrival order
RECURSIVE UnitsOfType(_, _)
UnitsOfType(units, nal_unit_type) ==
    IF units = <<>> THEN <<>>
    ELSE IF Head(units) # <<>> /\ Head(units)[1] % 32 = nal_unit_type
    THEN <<Head(units)>> \o UnitsOfType(Tail(units), nal_unit_type)
    ELSE UnitsOfType(Tail(units), nal_unit_type)

SpsOf(data) == UnitsOfType(NalUnits(data).val, SequenceParameterSet)
PpsOf(data) == UnitsOfType(NalUnits(data).val, PictureParameterSet)

\* the configuration and the dimensions that an SPS and a PPS give
ConfigurationOf(sps, pps) ==
    [configuration |->
        [profile_idc |-> sps[2], constraint_set_flag |-> sps[3], level_idc |-> sps[4],
         sequence_parameter_set |-> sps, picture_parameter_set |-> pps],
     width |-> width(SequenceParameterSet_read_from(Drop(sps, 1))),
     height |-> height(SequenceParameterSet_read_from(Drop(sps, 1)))]

Configured(stream) ==
    [configuration |-> stream.configuration, width |-> stream.width,
     height |-> stream.height]

\* the first video PES has just configured the stream
JustConfigured == FirstVideoPes /\ IsSome(avc_stream)

\* C14: the configuration is that of the first SPS and the first PPS in
\* arrival order; a further SPS or PPS in the first video PES leaves it alone.
C14_FirstParameterSetsWin ==
    JustConfigured =>
        Configured(avc_stream[1])
            = ConfigurationOf(SpsOf(LastPes.data)[1], PpsOf(LastPes.data)[1])

\* what the code does: within the first video PES every SPS and PPS
\* overwrites the one before it, so the last of each configures the stream
LastParameterSetsWin ==
    JustConfigured =>
        Configured(avc_stream[1])
            = ConfigurationOf(SpsOf(LastPes.data)[Len(SpsOf(LastPes.data))],
                              PpsOf(LastPes.data)[Len(PpsOf(LastPes.data))])

\* and once the stream exists its configuration never changes
ConfiguredOnce ==
    [][IsSome(avc_stream) =>
          (IsSome(avc_stream') /\ Configured(avc_stream'[1]) = Configured(avc_stream[1]))]_vars

\* a later video PES brought another SPS and left the configuration alone
ConfigurationKept ==
    /\ LastIsVideo
    /\ reads.video = 2
    /\ pc = "reading"
    /\ LastPes.data = V_LEVEL31
    /\ avc_stream[1].configuration.sequence_parameter_set = SPS_BASELINE

(***************************************************************************)
(* The ADTS headers of one track                                           *)
(***************************************************************************)
\* the headers of the ADTS frames the frame loop reads from a payload
RECURSIVE FrameHeaders(_)
FrameHeaders(bytes) ==
    IF Len(bytes) = 0 \/ ~AdtsHeader_read_from(bytes).ok THEN {}
    ELSE {AdtsHeader_read_from(bytes)}
         \cup FrameHeaders(Drop(bytes, AdtsHeader_read_from(bytes).frame_len))

SameTrack(h1, h2) ==
    /\ h1.profile = h2.profile
    /\ h1.sampling_frequency = h2.sampling_frequency
    /\ h1.channel_configuration = h2.channel_configuration

\* the audio samples and bytes in the returned media segment
AudioTraf == TheMedia.moof_box.traf_boxes[2]

\* C15: in a returned segment pair every ADTS frame that was consumed agrees
\* with the first-seen ADTS header on profile, sampling frequency and channel
\* configuration; frames of another header make the conversion fail.
C15_HomogeneousAudio ==
    (Returned /\ LastIsAudio) =>
        \A h \in FrameHeaders(LastPes.data) : SameTrack(h, aac_stream[1].adts_header)

\* what the code does: the frames of every audio PES are appended whatever
\* their header says; a 44.1 kHz stereo frame that follows a 48 kHz mono
\* frame ends in the same trun and the same mdat
MixedAudioReturned ==
    (Returned /\ LastIsAudio /\ LastPes.data = ADTS_44K
       /\ aac_stream[1].adts_header.sampling_frequency = 3)
        => /\ Len(AudioTraf.trun_box.samples) = Len(aac_stream[1].samples)
           /\ Len(aac_stream[1].samples) >= 2
           /\ SubSeq(AudioPayload, Len(AudioPayload) - 1, Len(AudioPayload)) = <<35, 36>>

\* a 44.1 kHz stereo frame was returned in the track of a 48 kHz mono header
MixedAudio ==
    /\ Returned
    /\ LastIsAudio
    /\ LastPes.data = ADTS_44K
    /\ aac_stream[1].adts_header.sampling_frequency = 3

(***************************************************************************)
(* The invariants the writers check                                        *)
(***************************************************************************)
Refused(kind) == ~Written.ok /\ Written.err = kind
EmptyTrakList == pc = "written" /\ TheBox.type = "moov" /\ TheBox.trak_boxes = <<>>
EmptySampleEntries == pc = "written" /\ TheBox.type = "stsd" /\ TheBox.sample_entries = <<>>
ZeroSequenceNumber == pc = "written" /\ TheBox.type = "mfhd" /\ TheBox.sequence_number = 0
EmptyMdatList ==
    pc = "written_to" /\ "mdat_boxes" \in DOMAIN TheBox /\ TheBox.mdat_boxes = <<>>

\* C16: serialization fails with InvalidInput for a moov with an empty trak
\* list, a MediaSegment with an empty mdat list, an mfhd whose
\* sequence_number is 0, and an stsd whose sample-entry list is empty.
C16_InvariantViolationsRefused ==
    /\ EmptyTrakList => Refused("InvalidInput")
    /\ EmptyMdatList => Refused("InvalidInput")
    /\ ZeroSequenceNumber => Refused("InvalidInput")
    /\ EmptySampleEntries => Refused("InvalidInput")

\* what the code does: three of the four are refused, and an mfhd numbered 0
\* is written like any other
WritersAsCoded ==
    /\ EmptyTrakList => Refused("InvalidInput")
    /\ EmptyMdatList => Refused("InvalidInput")
    /\ EmptySampleEntries => Refused("InvalidInput")
    /\ ZeroSequenceNumber =>
          Written = Ok(<<0, 0, 0, 16, 109, 102, 104, 100, 0, 0, 0, 0, 0, 0, 0, 0>>)

\* an mfhd numbered 0 was written
ZeroSequenceWritten == ZeroSequenceNumber /\ Written.ok

(***************************************************************************)
(* Writing the returned segments                                           *)
(***************************************************************************)
InitWritten == InitializationSegment_write_to(TheInit)
MediaWritten == MediaSegment_write_to(TheMedia)
FirstHeader == aac_stream[1].adts_header

\* C17: both segments of every pair to_fmp4 returns can be written to a
\* writer that never fails, whatever sampling frequency (index 0..12) and
\* channel configuration (0..7) the ADTS header has.
C17_ReturnedSegmentsSerialize ==
    Returned => (InitWritten.ok /\ MediaWritten.ok)

\* what the code does: the media segment is always written; the mp4a sample
\* entry refuses every channel configuration but 1 and 2 with Unsupported
\* and, after that, every sampling frequency above 65535 Hz with InvalidInput
ReturnedSegmentsAsCoded ==
    Returned =>
        /\ MediaWritten.ok
        /\ FirstHeader.channel_configuration \notin {1, 2}
              => (~InitWritten.ok /\ InitWritten.err = "Unsupported")
        /\ (FirstHeader.channel_configuration \in {1, 2}
              /\ as_u32(FirstHeader.sampling_frequency) > 65535)
              => (~InitWritten.ok /\ InitWritten.err = "InvalidInput")
        /\ (FirstHeader.channel_configuration \in {1, 2}
              /\ as_u32(FirstHeader.sampling_frequency) <= 65535)
              => InitWritten.ok

\* pairs were returned for a 96 kHz header, for a 6-channel header and for a
\* 48 kHz mono header
UnwritablePairsReturned ==
    /\ Returned
    /\ ~InitWritten.ok
    /\ FirstHeader.sampling_frequency = 0 \/ FirstHeader.channel_configuration = 6
WritablePairReturned == Returned /\ InitWritten.ok /\ MediaWritten.ok

(***************************************************************************)
(* The order of the tracks                                                 *)
(***************************************************************************)
Trafs == TheMedia.moof_box.traf_boxes
Traks == TheInit.moov_box.trak_boxes
Trexs == TheInit.moov_box.mvex_box.trex_boxes
SampleEntryTypes(trak) ==
    [k \in DOMAIN trak.mdia_box.minf_box.stbl_box.stsd_box.sample_entries |->
        trak.mdia_box.minf_box.stbl_box.stsd_box.sample_entries[k].type]

\* C18: a returned media segment is one moof with exactly two trafs, track
\* id 1 (video) then track id 2 (audio), and exactly two mdat boxes, the
\* video buffer then the audio buffer; the initialization segment has its
\* trak and trex boxes in the same order with the same track ids.
C18_VideoThenAudio ==
    Returned =>
        /\ TheMedia.moof_box.type = "moof"
        /\ [k \in DOMAIN Trafs |-> Trafs[k].tfhd_box.track_id] = <<1, 2>>
        /\ Trafs[1].trun_box.samples = avc_stream[1].samples
        /\ Trafs[2].trun_box.samples = aac_stream[1].samples
        /\ [k \in DOMAIN TheMedia.mdat_boxes |-> TheMedia.mdat_boxes[k].type]
              = <<"mdat", "mdat">>
        /\ TheMedia.mdat_boxes[1].data = avc_stream[1].data
        /\ TheMedia.mdat_boxes[2].data = aac_stream[1].data
        /\ [k \in DOMAIN Traks |-> Traks[k].tkhd_box.track_id] = <<1, 2>>
        /\ SampleEntryTypes(Traks[1]) = <<"avc1">>
        /\ SampleEntryTypes(Traks[2]) = <<"mp4a">>
        /\ IsSome(Traks[1].mdia_box.minf_box.vmhd_box)
        /\ IsSome(Traks[2].mdia_box.minf_box.smhd_box)
        /\ [k \in DOMAIN Trexs |-> Trexs[k].track_id] = <<1, 2>>

\* a pair was returned for an input that ended with a video PES, with two
\* video samples, one audio sample and the two buffers different
C18_Witness ==
    /\ Returned
    /\ LastIsVideo
    /\ Len(avc_stream[1].samples) = 2
    /\ Len(aac_stream[1].samples) = 1
    /\ avc_stream[1].data # aac_stream[1].data
    /\ Len(Trafs) = 2
    /\ Len(TheMedia.mdat_boxes) = 2

(***************************************************************************)
(* The bytes of ftyp                                                       *)
(***************************************************************************)
\* 00 00 00 10 66 74 79 70 69 73 6F 6D 00 00 02 00
FtypBytes == <<0, 0, 0, 16, 102, 116, 121, 112, 105, 115, 111, 109, 0, 0, 2, 0>>

\* C19: the ftyp box serializes to exactly the 16 bytes
\* 00 00 00 10 66 74 79 70 69 73 6F 6D 00 00 02 00, alone and as the head of
\* a written initialization segment.
C19_FtypBytes ==
    /\ (pc = "written" /\ TheBox.type = "ftyp")
          => (Written = Ok(FtypBytes) /\ out[1].size = Ok(16))
    /\ (pc = "written_to" /\ "ftyp_box" \in DOMAIN TheBox /\ Written.ok)
          => Take(Written.val, 16) = FtypBytes

\* an ftyp box was written
C19_Witness == pc = "written" /\ TheBox.type = "ftyp" /\ Written.ok /\ Len(Written.val) = 16
\* an initialization segment was written
InitializationSegmentWritten ==
    pc = "written_to" /\ "ftyp_box" \in DOMAIN TheBox /\ Written.ok

(***************************************************************************)
(* The Annex-B splitter on its own: a byte stream is handed to             *)
(* ByteStreamFormatNalUnits and the iterator is run to its end.            *)
(***************************************************************************)
MaxUnits == 2
MaxUnitLen == 3
MaxStreamLen == 4

\* byte strings of 0 and 1, and two units as an encoder emits them
BitStrings(n) == UNION { [1..m -> {0, 1}] : m \in 0..n }
UnitInputs == BitStrings(MaxUnitLen) \cup {IDR, PPS}

StartCode(n) == IF n = 3 THEN <<0, 0, 1>> ELSE <<0, 0, 0, 1>>

\* the stream of the units, each behind a start code of the given length
RECURSIVE Assemble(_, _)
Assemble(units, codes) ==
    IF units = <<>> THEN <<>>
    ELSE StartCode(Head(codes)) \o Head(units) \o Assemble(Tail(units), Tail(codes))

\* streams assembled from up to MaxUnits units, and short streams of any bytes
StreamInputs ==
    { [assembled |-> TRUE, units |-> u, bytes |-> Assemble(u, c)] :
        u \in UNION { [1..k -> UnitInputs] : k \in 0..MaxUnits },
        c \in [1..MaxUnits -> {3, 4}] }
    \cup { [assembled |-> FALSE, units |-> <<>>, bytes |-> b] :
             b \in BitStrings(MaxStreamLen) }

InitNal ==
    /\ pc = "stream"
    /\ err = ""
    /\ pid_to_stream_type = EmptyMap
    /\ stream_id_to_pid = EmptyMap
    /\ avc_stream = None
    /\ aac_stream = None
    /\ avc_timestamps = <<>>
    /\ avc_timestamp_offset = W(0)
    /\ pes = None
    /\ segments = None
    /\ reads = [pmt |-> 0, pes |-> 0, video |-> 0, audio |-> 0, eof |-> FALSE]
    /\ box \in { Some(s) : s \in StreamInputs }
    /\ out = None

\* ByteStreamFormatNalUnits::new and the iterator run to its end
split ==
    /\ pc = "stream"
    /\ out = None
    /\ out' = Some(NalUnits(box[1].bytes))
    /\ pc' = "split"
    /\ UNCHANGED <<err, pid_to_stream_type, stream_id_to_pid, avc_stream, aac_stream,
                   avc_timestamps, avc_timestamp_offset, pes, segments, reads, box>>

NextNal == split

SpecNal == InitNal /\ [][NextNal]_vars

TheStream == box[1]
Slices == out[1]
BeginsWithStartCode(bytes) ==
    Take(bytes, 3) = <<0, 0, 1>> \/ Take(bytes, 4) = <<0, 0, 0, 1>>
Rejected == pc = "split" /\ ~BeginsWithStartCode(TheStream.bytes)
Assembled == pc = "split" /\ TheStream.assembled /\ Len(TheStream.units) >= 1

\* a unit as H.264 defines it: not empty, no start code inside, and the
\* last byte is not 00
HoldsStartCode(u) == \E i \in 1..(Len(u) - 2) : SubSeq(u, i, i + 2) = <<0, 0, 1>>
IsNalUnit(u) == u # <<>> /\ u[Len(u)] # 0 /\ ~HoldsStartCode(u)

\* C20: for a stream built from k units, each behind a 3-byte or a 4-byte
\* start code, the splitter yields exactly the k units, in order and byte for
\* byte; a stream that does not begin with a start code is rejected with
\* InvalidInput.
C20_SplitterYieldsUnits ==
    /\ Assembled => Slices = Ok(TheStream.units)
    /\ Rejected => Slices = Err("InvalidInput")

\* C20 as the code has it: the same for units that are not empty, hold no
\* start code and do not end in 00.
C20_SplitterYieldsNalUnits ==
    /\ (Assembled /\ \A k \in DOMAIN TheStream.units : IsNalUnit(TheStream.units[k]))
          => Slices = Ok(TheStream.units)
    /\ Rejected => Slices = Err("InvalidInput")

\* two units, the first behind a 4-byte and the second behind a 3-byte start
\* code, came out as they went in
C20_Witness ==
    /\ Assembled
    /\ Len(TheStream.units) = 2
    /\ \A k \in DOMAIN TheStream.units : IsNalUnit(TheStream.units[k])
    /\ Take(TheStream.bytes, 4) = <<0, 0, 0, 1>>
    /\ Len(TheStream.bytes) = 4 + Len(TheStream.units[1]) + 3 + Len(TheStream.units[2])
    /\ Slices = Ok(TheStream.units)
\* a stream without a leading start code was rejected
StreamRejected == Rejected /\ Len(TheStream.bytes) >= 3 /\ ~Slices.ok

(***************************************************************************)
(* The parsers on their own: read_ue on an exp-Golomb code,                *)
(* SequenceParameterSet::read_from on an SPS and AdtsHeader::read_from on  *)
(* an ADTS header, each on an input built from its fields.                 *)
(***************************************************************************)
MaxUeBits == 20
UeDense == 256

\* the k bits of v, most significant first
Binary(v, k) == [i \in 1..k |-> (v \div Pow2(k - i)) % 2]
\* the k with 2^k <= m < 2^(k+1)
Log2Floor(m) == CHOOSE k \in 0..(MaxUeBits + 1) : Pow2(k) <= m /\ m < 2 * Pow2(k)
\* the exp-Golomb code of n: k zero bits, a 1 bit, the k bits of n + 1 - 2^k
UeCode(n) ==
    LET k == Log2Floor(n + 1)
    IN  Repeat(0, k) \o <<1>> \o Binary(n + 1 - Pow2(k), k)
BitOr(bits, i, pad) == IF i <= Len(bits) THEN bits[i] ELSE pad
\* the bits as bytes, most significant bit first, the last byte filled with pad
Pack(bits, pad) ==
    [j \in 1..((Len(bits) + 7) \div 8) |->
        128 * BitOr(bits, 8 * j - 7, pad) + 64 * BitOr(bits, 8 * j - 6, pad)
        + 32 * BitOr(bits, 8 * j - 5, pad) + 16 * BitOr(bits, 8 * j - 4, pad)
        + 8 * BitOr(bits, 8 * j - 3, pad) + 4 * BitOr(bits, 8 * j - 2, pad)
        + 2 * BitOr(bits, 8 * j - 1, pad) + BitOr(bits, 8 * j, pad)]

\* every n below UeDense and, for every code length, the first, the second
\* and the last n of that length
UeValues ==
    (0..(UeDense - 1))
    \cup UNION { {Pow2(k) - 1, Pow2(k), 2 * Pow2(k) - 2} : k \in 1..(MaxUeBits - 1) }
    \cup {Pow2(MaxUeBits) - 1}

\* the code of n behind `lead` bits already read, the last byte filled with pad
UeInputs ==
    { [n |-> n, lead |-> lead,
       bytes |-> Pack(Repeat(1, lead) \o UeCode(n), pad)] :
        n \in UeValues, lead \in {0, 3}, pad \in {0, 1} }

PipelineIdle ==
    /\ err = ""
    /\ pid_to_stream_type = EmptyMap
    /\ stream_id_to_pid = EmptyMap
    /\ avc_stream = None
    /\ aac_stream = None
    /\ avc_timestamps = <<>>
    /\ avc_timestamp_offset = W(0)
    /\ pes = None
    /\ segments = None
    /\ reads = [pmt |-> 0, pes |-> 0, video |-> 0, audio |-> 0, eof |-> FALSE]
    /\ out = None

\* BitReader::read_ue at the bit position `lead`
decode_ue ==
    /\ pc = "ue"
    /\ out = None
    /\ out' = Some(read_ue(box[1].bytes, box[1].lead))
    /\ pc' = "ue_read"
    /\ UNCHANGED <<err, pid_to_stream_type, stream_id_to_pid, avc_stream, aac_stream,
                   avc_timestamps, avc_timestamp_offset, pes, segments, reads, box>>

\* The bits of an SPS after level_idc, in the order of H.264 7.3.2.1.1 for a
\* Baseline SPS: crop is <<>> (frame_cropping_flag 0) or the four offsets
\* <<left, right, top, bottom>>.
SpsBits(f) ==
    UeCode(0) \o UeCode(0) \o UeCode(f.pic_order_cnt_type)
    \o (IF f.pic_order_cnt_type = 0 THEN UeCode(0)
        ELSE IF f.pic_order_cnt_type = 1
        THEN <<0>> \o UeCode(0) \o UeCode(0) \o UeCode(f.cycle)
             \o (IF f.cycle = 0 THEN <<>> ELSE UeCode(0) \o UeCode(0))
        ELSE <<>>)
    \o UeCode(1) \o <<0>>
    \o UeCode(f.pic_width_in_mbs_minus_1)
    \o UeCode(f.pic_height_in_map_units_minus_1)
    \o <<f.frame_mbs_only_flag>>
    \o (IF f.frame_mbs_only_flag = 0 THEN <<0>> ELSE <<>>)
    \o <<1>>
    \o (IF f.crop = <<>> THEN <<0>>
        ELSE <<1>> \o UeCode(f.crop[1]) \o UeCode(f.crop[2])
                   \o UeCode(f.crop[3]) \o UeCode(f.crop[4]))
    \o <<0, 1>>

\* the Baseline SPS of the fields, without the NAL unit header byte
SpsBytes(f) == <<66, 0, 30>> \o Pack(SpsBits(f), 0)

SpsFields ==
    { f \in [pic_order_cnt_type : 0..3, cycle : {0, 2},
             pic_width_in_mbs_minus_1 : {19, 119},
             pic_height_in_map_units_minus_1 : {14, 33, 67},
             frame_mbs_only_flag : {0, 1},
             crop : {<<>>, <<0, 0, 0, 4>>, <<1, 1, 0, 0>>}] :
        f.cycle = 0 \/ f.pic_order_cnt_type = 1 }

SpsInputs == { [fields |-> f, bytes |-> SpsBytes(f)] : f \in SpsFields }

\* SequenceParameterSet::read_from, then width() and height() of the result
read_sps ==
    /\ pc = "sps"
    /\ out = None
    /\ LET Dimensions(sps) ==
               [sps |-> sps,
                width |-> IF sps.ok THEN width(sps) ELSE 0,
                height |-> IF sps.ok THEN height(sps) ELSE 0]
       IN  out' = Some(Dimensions(SequenceParameterSet_read_from(box[1].bytes)))
    /\ pc' = "sps_read"
    /\ UNCHANGED <<err, pid_to_stream_type, stream_id_to_pid, avc_stream, aac_stream,
                   avc_timestamps, avc_timestamp_offset, pes, segments, reads, box>>

\* The seven bytes of an ADTS header: flags is the four bits originality,
\* home, copyrighted, copyright_id_start; the buffer fullness is all ones.
AdtsBytes(f) ==
    LET n == (f.frame_len % 2048) * 32 + 31
    IN  <<255,
          240 + 8 * f.mpeg_version + f.crc_protection_absent,
          64 + 4 * f.sampling_frequency_index + (f.channel_configuration \div 4),
          64 * (f.channel_configuration % 4) + 4 * f.flags + (f.frame_len \div 2048),
          n \div 256,
          n % 256,
          252 + f.raw_data_blocks_minus_1>>

AdtsFields ==
    [mpeg_version : {0, 1}, crc_protection_absent : {0, 1},
     sampling_frequency_index : 0..15, channel_configuration : {1},
     flags : {0, 1, 2, 4, 8}, frame_len : {9}, raw_data_blocks_minus_1 : {0, 1}]

AdtsInputs == { [fields |-> f, bytes |-> AdtsBytes(f) \o <<33, 34>>] : f \in AdtsFields }

\* AdtsHeader::read_from
read_adts ==
    /\ pc = "adts"
    /\ out = None
    /\ out' = Some(AdtsHeader_read_from(box[1].bytes))
    /\ pc' = "adts_read"
    /\ UNCHANGED <<err, pid_to_stream_type, stream_id_to_pid, avc_stream, aac_stream,
                   avc_timestamps, avc_timestamp_offset, pes, segments, reads, box>>

InitParse ==
    /\ PipelineIdle
    /\ \/ pc = "ue" /\ box \in { Some(i) : i \in UeInputs }
       \/ pc = "sps" /\ box \in { Some(i) : i \in SpsInputs }
       \/ pc = "adts" /\ box \in { Some(i) : i \in AdtsInputs }

NextParse == decode_ue \/ read_sps \/ read_adts

SpecParse == InitParse /\ [][NextParse]_vars

TheInput == box[1]
TheResult == out[1]

\* C21: for every n below 2^20, read_ue on the code of n (k zero bits, a 1 bit,
\* then the k bits of v) returns (1 << k) - 1 + v = n and has consumed exactly
\* 2k + 1 bits.
C21_UeRoundTrip ==
    pc = "ue_read" =>
        LET n == TheInput.n
            k == Log2Floor(n + 1)
            v == n + 1 - Pow2(k)
        IN  /\ TheResult.ok
            /\ TheResult.val = Pow2(k) - 1 + v
            /\ TheResult.val = n
            /\ TheResult.pos = TheInput.lead + 2 * k + 1

\* the largest n below 2^20 was decoded, behind three bits read before it
C21_Witness ==
    /\ pc = "ue_read"
    /\ TheInput.n = Pow2(MaxUeBits) - 1
    /\ TheInput.lead = 3
    /\ TheResult.val = TheInput.n
\* a code that ends in the middle of a byte whose other bits are ones
UeCodeInsideByte ==
    /\ pc = "ue_read"
    /\ TheInput.n = 5
    /\ TheInput.bytes = <<55>>
    /\ TheResult.val = 5 /\ TheResult.pos = 5

SpsRead == pc = "sps_read"
SpsAccepted == SpsRead /\ TheResult.sps.ok
CropOf(f) == IF f.crop = <<>> THEN <<0, 0, 0, 0>> ELSE f.crop

\* C22: for every accepted SPS, also with frame_mbs_only_flag = 0 or
\* frame_cropping_flag = 1, width = (pic_width_in_mbs_minus_1 + 1) * 16
\* - 2 * (crop_left + crop_right) and height = (2 - frame_mbs_only_flag)
\* * (pic_height_in_map_units_minus_1 + 1) * 16 - 2 * (crop_top + crop_bottom).
C22_PictureDimensions ==
    SpsAccepted =>
        LET f == TheInput.fields
            crop == CropOf(f)
        IN  /\ TheResult.width =
                  (f.pic_width_in_mbs_minus_1 + 1) * 16 - 2 * (crop[1] + crop[2])
            /\ TheResult.height =
                  (2 - f.frame_mbs_only_flag) * (f.pic_height_in_map_units_minus_1 + 1) * 16
                  - 2 * (crop[3] + crop[4])

\* what width() and height() return: the macroblock counts times 16, whatever
\* frame_mbs_only_flag and the cropping offsets are
DimensionsAsCoded ==
    SpsAccepted =>
        LET f == TheInput.fields
        IN  /\ TheResult.sps.pic_width_in_mbs_minus_1 = f.pic_width_in_mbs_minus_1
            /\ TheResult.sps.pic_height_in_map_units_minus_1
                  = f.pic_height_in_map_units_minus_1
            /\ TheResult.width = (f.pic_width_in_mbs_minus_1 + 1) * 16
            /\ TheResult.height = (f.pic_height_in_map_units_minus_1 + 1) * 16

\* a 1920x1080 SPS (68 rows of macroblocks, 4 luma row pairs cropped at the
\* bottom) was accepted with height 1088
CroppedSpsAccepted ==
    /\ SpsAccepted
    /\ TheInput.fields.pic_width_in_mbs_minus_1 = 119
    /\ TheInput.fields.pic_height_in_map_units_minus_1 = 67
    /\ TheInput.fields.frame_mbs_only_flag = 1
    /\ TheInput.fields.crop = <<0, 0, 0, 4>>
    /\ TheResult.width = 1920
    /\ TheResult.height = 1088
\* an interlaced SPS (frame_mbs_only_flag 0) of 34 map unit rows was accepted
\* with height 544
FieldSpsAccepted ==
    /\ SpsAccepted
    /\ TheInput.fields.frame_mbs_only_flag = 0
    /\ TheInput.fields.pic_height_in_map_units_minus_1 = 33
    /\ TheInput.fields.crop = <<>>
    /\ TheResult.height = 544

\* C23: an SPS whose pic_order_cnt_type is neither 0 nor 1 is rejected, and
\* the error kind is Unsupported.
C23_OrderCntTypeUnsupported ==
    (SpsRead /\ TheInput.fields.pic_order_cnt_type \notin {0, 1}) =>
        ~TheResult.sps.ok /\ TheResult.sps.err = "Unsupported"

\* what read_from returns: pic_order_cnt_type 0 and 1 are accepted, any other
\* is rejected with InvalidInput
OrderCntTypeAsCoded ==
    SpsRead =>
        IF TheInput.fields.pic_order_cnt_type \in {0, 1}
        THEN TheResult.sps.ok
        ELSE ~TheResult.sps.ok /\ TheResult.sps.err = "InvalidInput"

\* an SPS of pic_order_cnt_type 2 was rejected with InvalidInput
OrderCntType2Rejected ==
    /\ SpsRead
    /\ TheInput.fields.pic_order_cnt_type = 2
    /\ TheInput.bytes = <<66, 0, 30, 218, 5, 7, 228>>
    /\ ~TheResult.sps.ok /\ TheResult.sps.err = "InvalidInput"
\* an SPS of pic_order_cnt_type 1 with two offset_for_ref_frame was accepted
OrderCntType1Accepted ==
    /\ SpsAccepted
    /\ TheInput.fields.pic_order_cnt_type = 1
    /\ TheInput.fields.cycle = 2

AdtsRead == pc = "adts_read"
\* the checks ahead of the sampling-frequency index pass
AdtsVersion4 == AdtsRead /\ TheInput.fields.mpeg_version = 0
ReservedIndex == TheInput.fields.sampling_frequency_index \in {13, 14, 15}
UnsupportedConstruct ==
    \/ TheInput.fields.crc_protection_absent = 0
    \/ TheInput.fields.flags # 0
    \/ TheInput.fields.raw_data_blocks_minus_1 # 0

\* C24: an ADTS header whose sampling-frequency index is 13, 14 or 15 is
\* rejected by AdtsHeader::read_from with the error kind Unsupported, as is a
\* CRC-protected header, a set originality, home or copyright bit, and more
\* than one raw data block.
C24_ReservedIndexUnsupported ==
    /\ (AdtsRead /\ ReservedIndex) =>
          ~TheResult.ok /\ TheResult.err = "Unsupported"
    /\ (AdtsVersion4 /\ ~ReservedIndex /\ UnsupportedConstruct) =>
          ~TheResult.ok /\ TheResult.err = "Unsupported"

\* what read_from returns: InvalidInput for the index 13, 14 or 15 of an
\* MPEG-4 header, Unsupported for the other constructs, the header otherwise
AdtsAsCoded ==
    AdtsVersion4 =>
        IF ReservedIndex
        THEN ~TheResult.ok /\ TheResult.err = "InvalidInput"
        ELSE IF UnsupportedConstruct
        THEN ~TheResult.ok /\ TheResult.err = "Unsupported"
        ELSE /\ TheResult.ok
             /\ TheResult.sampling_frequency = TheInput.fields.sampling_frequency_index
             /\ TheResult.frame_len = TheInput.fields.frame_len

\* the header FF F1 74 40 01 3F FC (index 13) was rejected with InvalidInput
ReservedIndexRejected ==
    /\ AdtsRead
    /\ TheInput.bytes = <<255, 241, 116, 64, 1, 63, 252, 33, 34>>
    /\ ~TheResult.ok /\ TheResult.err = "InvalidInput"
\* a CRC-protected header with a valid index was rejected with Unsupported
CrcProtectedRejected ==
    /\ AdtsVersion4
    /\ TheInput.fields.sampling_frequency_index = 3
    /\ TheInput.fields.crc_protection_absent = 0
    /\ TheInput.fields.flags = 0
    /\ TheInput.fields.raw_data_blocks_minus_1 = 0
    /\ ~TheResult.ok /\ TheResult.err = "Unsupported"

(***************************************************************************)
(* The conversion over longer inputs: up to MaxOrderPes PES packets drawn  *)
(* from a smaller set, with video PES out of presentation order, ADTS      *)
(* frames whose length field does not fit the payload, and a PES on a PID  *)
(* that no PMT announces.                                                  *)
(***************************************************************************)
MaxOrderPes == 4

\* a PID no PMT of the inputs announces
OTHER_PID == AUDIO_PID + 1

\* a DTS 1500 ticks before the 33-bit clock wraps
DTS_BEFORE_WRAP == PTS_BEFORE_WRAP

\* an MPEG-4 AAC-LC frame, 48 kHz mono, with the given frame_length field
AdtsFrame(frame_len, payload) ==
    AdtsBytes([mpeg_version |-> 0, crc_protection_absent |-> 1,
               sampling_frequency_index |-> 3, channel_configuration |-> 1,
               flags |-> 0, frame_len |-> frame_len,
               raw_data_blocks_minus_1 |-> 0]) \o payload

\* a frame of the header alone ahead of a frame of 2 bytes; a frame whose
\* length field claims 5 payload bytes where 2 are left; a frame whose length
\* field is below the header length; the too long frame behind a good one
A_EMPTY_FIRST == AdtsFrame(HEADER_LEN_WITHOUT_CRC, <<>>) \o ADTS_48K
A_LONG == AdtsFrame(HEADER_LEN_WITHOUT_CRC + 5, <<41, 42>>)
A_SHORT == AdtsFrame(HEADER_LEN_WITHOUT_CRC - 2, <<43, 44>>)
A_LONG_SECOND == ADTS_48K \o A_LONG

OrderVideoInputs ==
    { Pes(VIDEO_PID, VIDEO_STREAM_ID, Some(W(3000)), None, V_FULL),
      Pes(VIDEO_PID, VIDEO_STREAM_ID, Some(W(6000)), None, V_SLICE),
      Pes(VIDEO_PID, VIDEO_STREAM_ID, Some(W(4500)), Some(W(3000)), V_SLICE),
      Pes(VIDEO_PID, VIDEO_STREAM_ID, Some(W(1500)), Some(DTS_BEFORE_WRAP), V_SLICE),
      Pes(OTHER_PID, VIDEO_STREAM_ID, Some(W(7500)), None, V_SLICE) }

OrderAudioInputs ==
    { Pes(AUDIO_PID, AUDIO_STREAM_ID, Some(W(0)), None, d) :
        d \in {ADTS_48K, ADTS_48K \o ADTS_44K, A_EMPTY_FIRST, A_LONG, A_SHORT,
               A_LONG_SECOND} }

OrderInputs == OrderVideoInputs \cup OrderAudioInputs

NextOrder ==
    \/ \E table \in PmtTables : read_pmt(table)
    \/ \E p \in OrderInputs : read_pes_within(p, MaxOrderPes)
    \/ end_of_stream

SpecOrder == Init /\ [][NextOrder]_vars

\* read_avc_aac_stream has returned both streams
StreamsRead == reads.eof /\ IsSome(avc_stream) /\ IsSome(aac_stream)
AudioSamples == aac_stream[1].samples

\* the pair sorted just ahead of the pair of decode index i - 1
PairAhead(i) ==
    CHOOSE j \in DOMAIN avc_timestamps :
        /\ PairLess(avc_timestamps[j], avc_timestamps[i])
        /\ \A k \in DOMAIN avc_timestamps :
              PairLess(avc_timestamps[k], avc_timestamps[i])
                  => (k = j \/ PairLess(avc_timestamps[k], avc_timestamps[j]))

\* C25: after a successful read_avc_aac_stream every video sample has its
\* duration set, for any number of video PES and any PTS order: decode index 0
\* has the smallest re-based timestamp (0), every other sample has the gap to
\* the timestamp sorted ahead of its own, and index 0 has max(0, start_time()).
C25_EveryDurationSet ==
    StreamsRead =>
        /\ Len(VideoSamples) = Len(avc_timestamps)
        /\ Len(VideoSamples) >= 1
        /\ avc_timestamps[1] = <<W(0), 0>>
        /\ \A i \in DOMAIN avc_timestamps :
              i = 1 \/ PairLess(avc_timestamps[1], avc_timestamps[i])
        /\ \A i \in DOMAIN VideoSamples : IsSome(VideoSamples[i].duration)
        /\ VideoSamples[1].duration
              = Some(W(Max(0, VideoSamples[1].composition_time_offset[1])))
        /\ \A i \in DOMAIN VideoSamples :
              i = 1 \/ VideoSamples[i].duration
                          = Some(AsU32(WSub(avc_timestamps[i][1],
                                            avc_timestamps[PairAhead(i)][1])))

\* three video PES arrived with PTS 3000, 6000, 4500 and all have a duration
C25_Witness ==
    /\ StreamsRead
    /\ avc_timestamps = << <<W(0), 0>>, <<W(3000), 1>>, <<W(1500), 2>> >>
    /\ VideoSamples[1].duration = Some(W(0))
    /\ VideoSamples[2].duration = Some(W(1500))
    /\ VideoSamples[3].duration = Some(W(1500))
\* a single video PES
OneVideoPes ==
    /\ StreamsRead
    /\ Len(VideoSamples) = 1
    /\ VideoSamples[1].duration = Some(W(0))
    /\ pc = "done"

RECURSIVE SumOfSizes(_)
SumOfSizes(samples) ==
    IF samples = <<>> THEN 0
    ELSE Head(samples).size[1] + SumOfSizes(Tail(samples))

\* C26: after any sequence of consumed PES packets, for each track the sum of
\* the recorded sample sizes equals the length of the track's byte buffer, and
\* in the returned media segment the sizes of each trun add up to the payload
\* length of that track's mdat.
C26_SizesCoverBuffer ==
    /\ (pc \in {"reading", "failed", "done"} /\ IsSome(avc_stream)) =>
          SumOfSizes(avc_stream[1].samples) = Len(avc_stream[1].data)
    /\ (pc \in {"reading", "failed", "done"} /\ IsSome(aac_stream)) =>
          SumOfSizes(aac_stream[1].samples) = Len(aac_stream[1].data)
    /\ Returned =>
          /\ SumOfSizes(VideoTrun.samples) = Len(VideoPayload)
          /\ SumOfSizes(AudioTrun.samples) = Len(AudioPayload)

\* a returned segment of three video samples (24, 6 and 6 bytes) and two
\* audio samples, the first of them empty
C26_Witness ==
    /\ Returned
    /\ Len(VideoTrun.samples) = 3
    /\ Len(VideoPayload) = 36
    /\ Len(AudioTrun.samples) = 2
    /\ AudioTrun.samples[1].size = Some(0)
    /\ Len(AudioPayload) = 2

\* the NAL units a video payload of these inputs was assembled from
UnitsIn(data) ==
    CASE data = V_FULL -> <<SPS_BASELINE, PPS, IDR>>
      [] data = V_SLICE -> <<SLICE>>
\* the raw data blocks an audio payload of these inputs was assembled from
PayloadsIn(data) ==
    CASE data = ADTS_48K -> << <<33, 34>> >>
      [] data = ADTS_48K \o ADTS_44K -> << <<33, 34>>, <<35, 36>> >>
      [] data = A_EMPTY_FIRST -> << <<>>, <<33, 34>> >>

\* each unit behind its length as four bytes (every unit here is < 256 bytes)
RECURSIVE Prefixed(_)
Prefixed(units) ==
    IF units = <<>> THEN <<>>
    ELSE <<0, 0, 0, Len(Head(units))>> \o Head(units) \o Prefixed(Tail(units))
RECURSIVE Joined(_)
Joined(seqs) == IF seqs = <<>> THEN <<>> ELSE Head(seqs) \o Joined(Tail(seqs))

NoStream == [samples |-> <<>>, data |-> <<>>]
VideoBefore == IF IsSome(avc_stream) THEN avc_stream[1] ELSE NoStream
AudioBefore == IF IsSome(aac_stream) THEN aac_stream[1] ELSE NoStream
VideoConsumed ==
    pc = "reading" /\ pc' = "reading" /\ reads'.video = reads.video + 1
AudioConsumed ==
    pc = "reading" /\ pc' = "reading" /\ reads'.audio = reads.audio + 1
SegmentsReturned == pc = "reading" /\ pc' = "done"
\* a sample without its duration
Undated(sample) == [sample EXCEPT !.duration = None]

\* a consumed video PES adds one sample behind those recorded and its units
\* behind the bytes buffered
VideoAppended ==
    VideoConsumed =>
        /\ Len(avc_stream'[1].samples) = reads'.video
        /\ SubSeq(avc_stream'[1].samples, 1, Len(VideoBefore.samples))
              = VideoBefore.samples
        /\ Len(avc_stream'[1].samples) = Len(VideoBefore.samples) + 1
        /\ avc_stream'[1].data
              = VideoBefore.data \o Prefixed(UnitsIn(pes'[1].packet.data))
\* a consumed audio PES adds one sample per frame, in the order of the
\* frames, and the frames' payloads in that order
AudioAppended ==
    AudioConsumed =>
        LET payloads == PayloadsIn(pes'[1].packet.data)
        IN  /\ aac_stream'[1].samples
                  = AudioBefore.samples
                    \o [k \in DOMAIN payloads |->
                           Sample(None, Some(Len(payloads[k])), None, None)]
            /\ aac_stream'[1].data = AudioBefore.data \o Joined(payloads)
\* the returned truns and mdats hold the samples and bytes of the streams in
\* the order recorded; only the durations of the video samples are new
OrderReturned ==
    SegmentsReturned =>
        LET media == segments'[1].media
            video == media.moof_box.traf_boxes[1].trun_box.samples
            audio == media.moof_box.traf_boxes[2].trun_box.samples
        IN  /\ Len(video) = Len(avc_stream[1].samples)
            /\ \A i \in DOMAIN video : Undated(video[i]) = avc_stream[1].samples[i]
            /\ media.mdat_boxes[1].data = avc_stream[1].data
            /\ audio = aac_stream[1].samples
            /\ media.mdat_boxes[2].data = aac_stream[1].data

\* C27: samples are never reordered relative to arrival: the video trun holds
\* one sample per consumed video PES in arrival order and the video buffer
\* their bytes in that order, whatever the PTS order; the audio trun holds one
\* sample per ADTS frame in arrival order.
C27_ArrivalOrderKept ==
    [][VideoAppended /\ AudioAppended /\ OrderReturned]_vars

\* video PES arrived with PTS 3000, 6000 and 4500 (the last with DTS 3000):
\* the returned trun and mdat hold them in that order
C27_Witness ==
    /\ Returned
    /\ avc_timestamps = << <<W(0), 0>>, <<W(3000), 1>>, <<W(1500), 2>> >>
    /\ Len(VideoTrun.samples) = 3
    /\ Len(AudioTrun.samples) = 2
    /\ [i \in 1..3 |-> VideoTrun.samples[i].composition_time_offset]
          = <<Some(0), Some(0), Some(1500)>>
    /\ [i \in 1..3 |-> VideoTrun.samples[i].size] = <<Some(24), Some(6), Some(6)>>
    /\ VideoPayload = Prefixed(<<SPS_BASELINE, PPS, IDR, SLICE, SLICE>>)
    /\ [i \in 1..2 |-> AudioTrun.samples[i].size] = <<Some(2), Some(2)>>
    /\ AudioPayload = <<33, 34, 35, 36>>

\* the last pass of the loop consumed a video PES
VideoPesRecorded ==
    /\ pc = "reading"
    /\ IsSome(pes)
    /\ StreamId_is_video(pes[1].packet.stream_id)
ThePes == pes[1].packet
ThePts == Unwrap(ThePes.pts)
TheDts == IF IsSome(ThePes.dts) THEN Unwrap(ThePes.dts) ELSE ThePts
TheSample == avc_stream[1].samples[Len(avc_stream[1].samples)]
TheOffset == TheSample.composition_time_offset[1]

RECURSIVE PrefixedSize(_)
PrefixedSize(units) ==
    IF units = <<>> THEN 0 ELSE 4 + Len(Head(units)) + PrefixedSize(Tail(units))

\* the sample's size is the sum of 4 + length over the units of the PES, and
\* the bytes added are each unit behind its big-endian u32 length
SizeIsPrefixedUnits ==
    /\ TheSample.size = Some(PrefixedSize(UnitsIn(ThePes.data)))
    /\ Drop(avc_stream[1].data, Len(avc_stream[1].data) - TheSample.size[1])
          = Prefixed(UnitsIn(ThePes.data))

\* offset = PTS - DTS as integers
OffsetIsDifference ==
    IF WLeq(TheDts, ThePts)
    THEN TheOffset >= 0 /\ W(TheOffset) = WSub(ThePts, TheDts)
    ELSE TheOffset < 0 /\ W(-TheOffset) = WSub(TheDts, ThePts)

\* |PTS - DTS| < 2^31
DifferenceFitsI32 ==
    LET two_to_31 == [hi |-> 2, lo |-> 0]
    IN  IF WLeq(TheDts, ThePts)
        THEN WLess(WSub(ThePts, TheDts), two_to_31)
        ELSE WLess(WSub(TheDts, ThePts), two_to_31)

\* offset + DTS = PTS modulo 2^32, the offset taken as a u32
OffsetIsDifferenceMod32 ==
    LET two_to_32 == [hi |-> 4, lo |-> 0]
        offset == IF TheOffset >= 0 THEN W(TheOffset)
                  ELSE WSub(two_to_32, W(-TheOffset))
    IN  AsU32(WAdd(offset, TheDts)) = AsU32(ThePts)

\* C28: for every video PES the recorded sample has size equal to the sum over
\* its NAL units of 4 + unit length (each unit appended as a big-endian u32
\* length and its bytes, start codes dropped) and composition_time_offset
\* equal to PTS - DTS, which is 0 when the PES has no DTS.
C28_SizeAndOffset ==
    VideoPesRecorded =>
        /\ SizeIsPrefixedUnits
        /\ OffsetIsDifference
        /\ IsNone(ThePes.dts) => TheOffset = 0

\* C28 as the code has it: the offset is PTS - DTS cut to an i32, which is
\* PTS - DTS when that lies within 31 bits.
C28_SizeAndOffsetAsI32 ==
    VideoPesRecorded =>
        /\ SizeIsPrefixedUnits
        /\ OffsetIsDifferenceMod32
        /\ DifferenceFitsI32 => OffsetIsDifference
        /\ IsNone(ThePes.dts) => TheOffset = 0

\* a slice with PTS 4500 and DTS 3000 behind the first PES
C28_Witness ==
    /\ VideoPesRecorded
    /\ ThePes.data = V_SLICE
    /\ ThePes.pts = Some(W(4500)) /\ ThePes.dts = Some(W(3000))
    /\ TheSample.size = Some(6)
    /\ TheOffset = 1500
    /\ Len(avc_stream[1].samples) = 2
\* the first PES: three units, no DTS
ThreeUnitsRecorded ==
    /\ VideoPesRecorded
    /\ ThePes.data = V_FULL
    /\ ThePes.dts = None
    /\ TheSample.size = Some(24)
    /\ TheOffset = 0
\* PTS 1500 behind the wrap of the clock, DTS 1500 ahead of it
OffsetAcrossWrap ==
    /\ VideoPesRecorded
    /\ ThePes.pts = Some(W(1500)) /\ ThePes.dts = Some(DTS_BEFORE_WRAP)
    /\ TheOffset = 3000

\* the last pass of the loop took an audio PES
AudioPesTaken ==
    /\ IsSome(pes)
    /\ StreamId_is_audio(pes[1].packet.stream_id)
    /\ pes[1].stream_type = Some("AdtsAac")
    /\ ~reads.eof
\* the frame_length fields of the frames of an audio payload of these inputs,
\* and the payload bytes that follow each header
FrameLengthsIn(data) ==
    CASE data = ADTS_48K -> <<9>>
      [] data = ADTS_48K \o ADTS_44K -> <<9, 9>>
      [] data = A_EMPTY_FIRST -> <<7, 9>>
      [] data = A_LONG -> <<12>>
      [] data = A_SHORT -> <<5>>
      [] data = A_LONG_SECOND -> <<9, 12>>
\* the bytes left behind the header of frame k
RECURSIVE LeftBehindHeader(_, _, _)
LeftBehindHeader(total, lengths, k) ==
    IF k = 1 THEN total - HEADER_LEN_WITHOUT_CRC
    ELSE LeftBehindHeader(total - Head(lengths), Tail(lengths), k - 1)
FrameFits(data, k) ==
    LET frame_length == FrameLengthsIn(data)[k]
    IN  /\ frame_length >= HEADER_LEN_WITHOUT_CRC
        /\ frame_length - HEADER_LEN_WITHOUT_CRC
              <= LeftBehindHeader(Len(data), FrameLengthsIn(data), k)
EveryFrameFits(data) == \A k \in DOMAIN FrameLengthsIn(data) : FrameFits(data, k)

\* C29: every ADTS frame consumed from an audio PES records a sample of
\* frame_length - 7 bytes and appends that many, with 0 <= frame_length - 7 <=
\* the bytes left behind the header; a frame with frame_length < 7 or with
\* frame_length - 7 above the bytes left makes the conversion return an error
\* rather than wrap around or read out of bounds.
C29_FrameLengthChecked ==
    AudioPesTaken =>
        IF EveryFrameFits(pes[1].packet.data)
        THEN /\ pc = "reading"
             /\ LET lengths == FrameLengthsIn(pes[1].packet.data)
                    n == Len(aac_stream[1].samples) - Len(lengths)
                IN  \A k \in DOMAIN lengths :
                       aac_stream[1].samples[n + k].size
                           = Some(lengths[k] - HEADER_LEN_WITHOUT_CRC)
        ELSE pc = "failed" /\ err # ""

\* what the loop does: it panics on a frame that does not fit
FrameLengthAsCoded ==
    AudioPesTaken =>
        IF EveryFrameFits(pes[1].packet.data)
        THEN /\ pc = "reading"
             /\ LET lengths == FrameLengthsIn(pes[1].packet.data)
                    n == Len(aac_stream[1].samples) - Len(lengths)
                IN  \A k \in DOMAIN lengths :
                       aac_stream[1].samples[n + k].size
                           = Some(lengths[k] - HEADER_LEN_WITHOUT_CRC)
        ELSE pc = "panicked" /\ err = ""

\* a frame whose length field is 5 ended the process
ShortFramePanicked ==
    /\ AudioPesTaken
    /\ pes[1].packet.data = A_SHORT
    /\ pc = "panicked"
\* a frame that claims 5 payload bytes where 2 are left ended the process
LongFramePanicked ==
    /\ AudioPesTaken
    /\ pes[1].packet.data = A_LONG
    /\ pc = "panicked"
\* a frame of the header alone was recorded with size 0
EmptyFrameRecorded ==
    /\ AudioPesTaken
    /\ pes[1].packet.data = A_EMPTY_FIRST
    /\ pc = "reading"
    /\ aac_stream[1].samples[1].size = Some(0)

\* every PID bound to a stream_id is announced
BoundPidsAnnounced ==
    \A stream_id \in DOMAIN stream_id_to_pid :
        stream_id_to_pid[stream_id] \in DOMAIN pid_to_stream_type

PesTaken == pc = "reading" /\ reads'.pes = reads.pes + 1
TakenPes == pes'[1].packet
Announced(pid) == pid \in DOMAIN pid_to_stream_type

\* a binding changes only to the PID of the PES just started, and only if a
\* PMT read before has announced that PID
BoundByAnnouncedPes ==
    stream_id_to_pid' # stream_id_to_pid =>
        /\ PesTaken
        /\ Announced(TakenPes.pid)
        /\ stream_id_to_pid'
              = Insert(stream_id_to_pid, TakenPes.stream_id, TakenPes.pid)

\* a PES on a PID not announced resolves to no stream type and fails
UnannouncedPesFails ==
    (PesTaken /\ ~Announced(TakenPes.pid)) =>
        /\ pes'[1].stream_type = None
        /\ pc' = "failed" /\ err' = "InvalidInput"

\* C30: while TS packets are read, every PID stored in stream_id_to_pid is a
\* key of pid_to_stream_type: a stream_id is bound to a PID only by a PES
\* whose PID an earlier PMT announced, so a PES on a PID not yet announced
\* when it started gets no stream type and to_fmp4 fails with InvalidInput.
C30_UnannouncedPidFails ==
    []BoundPidsAnnounced /\ [][BoundByAnnouncedPes /\ UnannouncedPesFails]_vars

\* what the lookup does: a PES on a PID not announced fails if its stream_id
\* has no binding, and otherwise takes the stream type of the PID an earlier
\* PES of that stream_id was carried on
UnannouncedPesAsCoded ==
    (PesTaken /\ ~Announced(TakenPes.pid)) =>
        /\ stream_id_to_pid' = stream_id_to_pid
        /\ IF TakenPes.stream_id \in DOMAIN stream_id_to_pid
           THEN pes'[1].stream_type
                   = Some(pid_to_stream_type[stream_id_to_pid[TakenPes.stream_id]])
           ELSE /\ pes'[1].stream_type = None
                /\ pc' = "failed" /\ err' = "InvalidInput"
LookupAsCoded ==
    []BoundPidsAnnounced /\ [][BoundByAnnouncedPes /\ UnannouncedPesAsCoded]_vars

\* a video PES on the PID no PMT announces was taken as H.264 and recorded as
\* the second sample
StaleBindingUsed ==
    /\ pc = "reading"
    /\ IsSome(pes)
    /\ pes[1].packet.pid = OTHER_PID
    /\ OTHER_PID \notin DOMAIN pid_to_stream_type
    /\ pes[1].stream_type = Some("H264")
    /\ stream_id_to_pid[VIDEO_STREAM_ID] = VIDEO_PID
    /\ Len(avc_stream[1].samples) = 2
\* a PES ahead of the PMT failed with InvalidInput
PesAheadOfPmtFailed ==
    /\ pc = "failed" /\ err = "InvalidInput"
    /\ reads.pmt = 0
    /\ pes[1].stream_type = None
    /\ stream_id_to_pid = EmptyMap

====
